---- MODULE Spec2Model ----
(***************************************************************************)
(* Mutation testing engine of nklapste/mutmut.                             *)
(*                                                                         *)
(* Three entry points are modelled, selected by `prog`:                    *)
(*   "muckup" : muckup/__main__.py main() driving                          *)
(*              muckup/runner.py MutationTestRunner over                   *)
(*              muckup/mutators.py Mutant objects;                         *)
(*   "api"    : direct calls of Mutant.apply() / Mutant.revert()           *)
(*              (muckup/mutators.py) on a file of arbitrary content;       *)
(*   "mutmut" : mutmut/__main__.py run_main() with the result cache of     *)
(*              mutmut/cache.py, over several consecutive runs.            *)
(*                                                                         *)
(* Name bindings the sources leave to the reader: runner.py reads          *)
(* `mutant.source_file`, which is the mutant's file (Mutant.filename);     *)
(* __main__.py calls cached_mutation_status / update_mutant_status, which  *)
(* are cache.py's get_cached_mutation_status / set_cached_mutant_status.   *)
(***************************************************************************)
EXTENDS Integers, Sequences, FiniteSets, TLC

(* ------------------------------ bounds -------------------------------- *)

\* number of mutants handed to the orchestrator
NumMutants == 3
\* mutants generated per source file (generation order is file by file)
PerFile == 2
\* largest baseline time T, in ticks
MaxBaseline == 1
\* largest number of consecutive runs over the same mutants / cache
MaxRuns == 2
\* largest --test-time-base, in ticks
MaxBase == 1
\* largest number of output lines the subprocess writes
MaxLines == 1
\* largest number of lines of a source file whose lines are cached
MaxLen == 3

(* ------------------------- program constants -------------------------- *)

\* muckup/runner.py:132  run_test(timeout=self.baseline_test_time * 10)
RunnerTimeoutFactor == 10
\* muckup/runner.py:136  time.time() - start > self.baseline_test_time * 2
RunnerSuspiciousFactor == 2
\* mutmut/__main__.py:655  timeout=config.baseline_time_elapsed * 10
TestsPassTimeoutFactor == 10
\* mutmut/__main__.py:214  --test-time-multiplier default=2.0
DefaultTimeMultiplier == 2
\* mutmut/__main__.py:223  --test-time-base default=0.0
DefaultTimeBase == 0

UNTESTED == "UNTESTED"
OK_KILLED == "OK_KILLED"
OK_SUSPICIOUS == "OK_SUSPICIOUS"
BAD_TIMEOUT == "BAD_TIMEOUT"
BAD_SURVIVED == "BAD_SURVIVED"

MutantTestStatus == {UNTESTED, OK_KILLED, OK_SUSPICIOUS, BAD_TIMEOUT, BAD_SURVIVED}

Terminal == MutantTestStatus \ {UNTESTED}

(* ------------------------------ universe ------------------------------ *)

Mutants == 1..NumMutants

\* the file a mutant belongs to: mutants come file by file
FileOf(m) == 1 + ((m - 1) \div PerFile)

Files == {FileOf(m) : m \in Mutants}

\* file contents, compared byte for byte: distinct tokens are distinct texts
Orig(f) == <<"source", f>>
Edited(f) == <<"edited", f>>
MutatedSource(m) == <<"mutated", m>>
Empty == <<"empty">>
Absent == <<"absent">>

\* exit codes of the test command: pass, fail, "no tests collected"
ExitCodes == {0, 1, 5}

\* elapsed wall time of a test run that exited ranges over 1..MaxElapsed
\* ticks: below and above every threshold base + T * multiplier
MaxElapsed == MaxBase + DefaultTimeMultiplier * MaxBaseline + 1

VARIABLES
    prog,                \* entry point: "muckup", "api" or "mutmut"
    pc,                  \* control position of the single control thread
    cur,                 \* the mutant being processed (loop variable / receiver)
    runs,                \* number of runs started so far
    disk,                \* [Files -> content of <file>]
    bak,                 \* [Files -> content of <file>.bak, or Absent]
    exc,                 \* exception in flight or raised: "none" or its name
    using_testmon,       \* '--testmon' in the runner command
    baseline_test_time,  \* T; 0 stands for None
    last,                \* outcome of the last run of the test command
    code,                \* exit code returned by the run; -1 = none yet
    status,              \* [Mutants -> status]: Mutant.status (muckup),
                         \*   status returned by run_mutation in this run (mutmut)
    applied,             \* [Mutants -> BOOLEAN]: Mutant.applied
    source,              \* [Mutants -> content]: Mutant.source
    pre,                 \* content of the file when the current apply began
    trail,               \* the calls completed so far on the Mutant API, and
                         \* the hook commands run so far (last two)
    cache,               \* .mutmut-cache: [Mutants -> Mutant row, or NoRow]
    cached_time,         \* .mutmut-cache: MiscData baseline_time_elapsed; 0 = no row
    config,              \* mutmut Config: settings and running tallies of the run
    cached_status,       \* run_mutation's local: the result of the cache lookup
    tested_against,      \* history: [Mutants -> hash of the test suite the mutant
                         \*   was last actually run against, or NoHash]
    baseline_run,        \* history: outcome of this run's baseline run of the
                         \*   test command; NoRun if it has not been run
    popen,               \* one invocation of popen_streaming_output: the caller's
                         \*   thread, the Timer thread and the subprocess
    pre_mutation,        \* --pre-mutation: a hook command is configured
    post_mutation,       \* --post-mutation: a hook command is configured
    linedb,              \* one source file and its Line and Mutant rows in the
                         \*   cache, around a call of update_line_numbers
    db,                  \* the .mutmut-cache store around init_db: file, version stamp, rows
    walker,              \* one Mutator and its generator over one parsed source file
    setup,               \* the set-up of a run: the exclusion filter requested and its backing file
    registry             \* the Mutant rows of a cache around calls of register_mutants

vars == <<prog, pc, cur, runs, disk, bak, exc, using_testmon, baseline_test_time,
          last, code, status, applied, source, pre, trail,
          cache, cached_time, config, cached_status, tested_against, baseline_run,
          popen, pre_mutation, post_mutation, linedb, db, walker, setup, registry>>

\* the variables only mutmut/__main__.py and mutmut/cache.py touch
mmVars == <<cache, cached_time, config, cached_status, tested_against>>

NoRun == [kind |-> "none", rc |-> 0, elapsed |-> 0]

\* the variables of the orchestrators and of the Mutant API
mainVars == <<prog, pc, cur, runs, disk, bak, exc, using_testmon, baseline_test_time,
              last, code, status, applied, source, pre, trail,
              cache, cached_time, config, cached_status, tested_against,
              baseline_run, pre_mutation, post_mutation>>

\* no .mutmut-cache file, and the database not bound in this process
NoDb == [where |-> "none", provider |-> FALSE, file |-> FALSE, old_schema |-> FALSE,
         version |-> "none", rows |-> {}, before |-> <<>>]

\* no Mutator constructed: `at` is the generator's position, tree the parsed
\* source, cursor the path of the node being visited, out the mutants
\* yielded in this pass, first those of the pass before
NoWalker ==
    [at |-> "none", program |-> "none", pragma |-> {}, exclude |-> {},
     tree |-> <<>>, cursor |-> <<>>, old |-> <<>>, index |-> 0,
     current_line_index |-> 0, out |-> <<>>, first |-> <<>>, pass |-> 0,
     considered |-> 0]

\* no run set up: `where` is the position in main / run_main, waited the
\* seconds muckup has slept waiting for .coverage, generated and tested count
\* the mutants generated and tested
NoSetup ==
    [entry |-> "none", where |-> "none", use_coverage |-> FALSE,
     use_patch_file |-> FALSE, coverage_file |-> FALSE, patch_file |-> FALSE,
     runner_writes_coverage |-> FALSE, waited |-> 0, baseline |-> "none",
     generated |-> 0, tested |-> 0, exc |-> "none"]

\* no cache to register in: rows are the Mutant rows, mutations_by_file the
\* mapping to register, initial and once the rows before the first call and
\* after it, calls the number of calls made
NoRegistry ==
    [at |-> "none", rows |-> <<>>, mutations_by_file |-> {}, initial |-> <<>>,
     once |-> <<>>, calls |-> 0]

\* no file whose lines are cached
NoLines == [where |-> "none", file |-> <<>>, rows |-> <<>>, before |-> <<>>,
            err |-> "none"]

\* popen_streaming_output before it is called: `where` is the caller's
\* position, returncode is Popen.returncode (<<>> for None), finished is the
\* Timer's Event, kills counts executions of kill(process_), inherited says
\* that a process started by the subprocess holds its stdout pipe as well
NoPopen ==
    [where |-> "call", version |-> "none", deadline |-> FALSE, clock |-> "before",
     inherited |-> FALSE,
     process |-> "none", rc |-> 0, returncode |-> <<>>, emitted |-> 0, buffered |-> 0,
     timer |-> "none", finished |-> FALSE, kills |-> 0,
     exited_when |-> "never", overdue |-> FALSE, fired_after_return |-> FALSE,
     exc |-> "none", result |-> <<>>]

(* ----------------------- muckup/mutators.py Mutant -------------------- *)

\* where apply() returns to: the caller of the model's entry point
AfterApply == IF prog = "api" THEN "idle" ELSE "run_test"

\* where an exception raised inside apply() lands: test_mutant's finally
\* clause (runner.py:142), or the direct caller
RaiseFromApply == IF prog = "api" THEN "idle" ELSE "finally"

\* an apply() without its applied check: it always goes on to write
Mutant_apply_unchecked ==
    /\ pc = "apply"
    /\ pc' = "apply_open_bak"
    /\ UNCHANGED <<prog, popen, registry, setup, walker, db, linedb, pre_mutation, post_mutation, baseline_run, cur, runs, disk, bak, exc, using_testmon, baseline_test_time,
                   last, code, status, applied, source, pre, trail>>
    /\ UNCHANGED mmVars

\* Mutant.apply, lines 90-92: the applied check
Mutant_apply_check ==
    /\ pc = "apply"
    /\ IF applied[cur]
         THEN /\ exc' = "RuntimeError:apply"
              /\ pc' = RaiseFromApply
         ELSE /\ exc' = exc
              /\ pc' = "apply_open_bak"
    /\ UNCHANGED <<prog, popen, registry, setup, walker, db, linedb, pre_mutation, post_mutation, baseline_run, cur, runs, disk, bak, using_testmon, baseline_test_time,
                   last, code, status, applied, source, pre, trail>>
    /\ UNCHANGED mmVars

\* Mutant.apply, line 94: open(self.filename + '.bak', 'w') creates or truncates
Mutant_apply_open_bak ==
    /\ pc = "apply_open_bak"
    /\ bak' = [bak EXCEPT ![FileOf(cur)] = Empty]
    /\ pc' = "apply_write_bak"
    /\ UNCHANGED <<prog, popen, registry, setup, walker, db, linedb, pre_mutation, post_mutation, baseline_run, cur, runs, disk, exc, using_testmon, baseline_test_time,
                   last, code, status, applied, source, pre, trail>>
    /\ UNCHANGED mmVars

\* an apply() whose backup write is still buffered when the source file is
\* opened: the .bak stays empty
Mutant_apply_write_bak_unflushed ==
    /\ pc = "apply_write_bak"
    /\ pc' = "apply_open_file"
    /\ UNCHANGED <<prog, popen, registry, setup, walker, db, linedb, pre_mutation, post_mutation, baseline_run, cur, runs, disk, bak, exc, using_testmon, baseline_test_time,
                   last, code, status, applied, source, pre, trail>>
    /\ UNCHANGED mmVars

\* Mutant.apply, line 94: .write(self.source), flushed when the file object
\* is dropped at the end of the statement
Mutant_apply_write_bak ==
    /\ pc = "apply_write_bak"
    /\ bak' = [bak EXCEPT ![FileOf(cur)] = source[cur]]
    /\ pc' = "apply_open_file"
    /\ UNCHANGED <<prog, popen, registry, setup, walker, db, linedb, pre_mutation, post_mutation, baseline_run, cur, runs, disk, exc, using_testmon, baseline_test_time,
                   last, code, status, applied, source, pre, trail>>
    /\ UNCHANGED mmVars

\* Mutant.apply, line 95: open(self.filename, 'w') truncates the source file
Mutant_apply_open_file ==
    /\ pc = "apply_open_file"
    /\ disk' = [disk EXCEPT ![FileOf(cur)] = Empty]
    /\ pc' = "apply_write_file"
    /\ UNCHANGED <<prog, popen, registry, setup, walker, db, linedb, pre_mutation, post_mutation, baseline_run, cur, runs, bak, exc, using_testmon, baseline_test_time,
                   last, code, status, applied, source, pre, trail>>
    /\ UNCHANGED mmVars

\* Mutant.apply, lines 95-96: f.write(self.mutated_source) and close
Mutant_apply_write_file ==
    /\ pc = "apply_write_file"
    /\ disk' = [disk EXCEPT ![FileOf(cur)] = MutatedSource(cur)]
    /\ pc' = "apply_set"
    /\ UNCHANGED <<prog, popen, registry, setup, walker, db, linedb, pre_mutation, post_mutation, baseline_run, cur, runs, bak, exc, using_testmon, baseline_test_time,
                   last, code, status, applied, source, pre, trail>>
    /\ UNCHANGED mmVars

\* the last two completed calls on the Mutant API
Remember(call) == IF trail = <<>> THEN <<call>> ELSE <<trail[Len(trail)], call>>

\* Mutant.apply, line 98: self.applied = True, and return
Mutant_apply_set ==
    /\ pc = "apply_set"
    /\ applied' = [applied EXCEPT ![cur] = TRUE]
    /\ pc' = AfterApply
    /\ trail' = IF prog = "api" THEN Remember(<<"apply", cur, pre>>) ELSE trail
    /\ UNCHANGED <<prog, popen, registry, setup, walker, db, linedb, pre_mutation, post_mutation, baseline_run, cur, runs, disk, bak, exc, using_testmon, baseline_test_time,
                   last, code, status, source, pre>>
    /\ UNCHANGED mmVars

\* Mutant.revert, lines 103-105: the applied check
Mutant_revert_check ==
    /\ pc = "revert"
    /\ IF ~applied[cur]
         THEN /\ exc' = "RuntimeError:revert"
              /\ pc' = "idle"
         ELSE /\ exc' = exc
              /\ pc' = "revert_move"
    /\ UNCHANGED <<prog, popen, registry, setup, walker, db, linedb, pre_mutation, post_mutation, baseline_run, cur, runs, disk, bak, using_testmon, baseline_test_time,
                   last, code, status, applied, source, pre, trail>>
    /\ UNCHANGED mmVars

\* a revert() that copies the backup over the source file and leaves it behind
Mutant_revert_copy ==
    /\ pc = "revert_move"
    /\ IF bak[FileOf(cur)] = Absent
         THEN /\ exc' = "FileNotFoundError"
              /\ pc' = "idle"
              /\ UNCHANGED disk
         ELSE /\ disk' = [disk EXCEPT ![FileOf(cur)] = bak[FileOf(cur)]]
              /\ exc' = exc
              /\ pc' = "revert_clear"
    /\ UNCHANGED <<prog, popen, registry, setup, walker, db, linedb, pre_mutation, post_mutation, baseline_run, cur, runs, bak, using_testmon, baseline_test_time,
                   last, code, status, applied, source, pre, trail>>
    /\ UNCHANGED mmVars

\* Mutant.revert, line 106: move(self.filename + '.bak', self.filename), a
\* rename; FileNotFoundError without a .bak
Mutant_revert_move ==
    /\ pc = "revert_move"
    /\ IF bak[FileOf(cur)] = Absent
         THEN /\ exc' = "FileNotFoundError"
              /\ pc' = "idle"
              /\ UNCHANGED <<disk, bak>>
         ELSE /\ disk' = [disk EXCEPT ![FileOf(cur)] = bak[FileOf(cur)]]
              /\ bak' = [bak EXCEPT ![FileOf(cur)] = Absent]
              /\ exc' = exc
              /\ pc' = "revert_clear"
    /\ UNCHANGED <<prog, popen, registry, setup, walker, db, linedb, pre_mutation, post_mutation, baseline_run, cur, runs, using_testmon, baseline_test_time,
                   last, code, status, applied, source, pre, trail>>
    /\ UNCHANGED mmVars

\* Mutant.revert, line 108: self.applied = False, and return
Mutant_revert_clear ==
    /\ pc = "revert_clear"
    /\ applied' = [applied EXCEPT ![cur] = FALSE]
    /\ pc' = "idle"
    /\ trail' = Remember(<<"revert", cur, pre>>)
    /\ UNCHANGED <<prog, popen, registry, setup, walker, db, linedb, pre_mutation, post_mutation, baseline_run, cur, runs, disk, bak, exc, using_testmon, baseline_test_time,
                   last, code, status, source, pre>>
    /\ UNCHANGED mmVars

\* a caller invokes mutant.apply() on some mutant
Call_apply ==
    /\ prog = "api" /\ pc = "idle"
    /\ \E m \in Mutants :
         /\ cur' = m
         /\ pre' = disk[FileOf(m)]
    /\ pc' = "apply"
    /\ exc' = "none"
    /\ UNCHANGED <<prog, popen, registry, setup, walker, db, linedb, pre_mutation, post_mutation, baseline_run, runs, disk, bak, using_testmon, baseline_test_time,
                   last, code, status, applied, source, trail>>
    /\ UNCHANGED mmVars

\* a caller invokes mutant.revert() on some mutant
Call_revert ==
    /\ prog = "api" /\ pc = "idle"
    /\ \E m \in Mutants : cur' = m
    /\ pc' = "revert"
    /\ exc' = "none"
    /\ UNCHANGED <<prog, popen, registry, setup, walker, db, linedb, pre_mutation, post_mutation, baseline_run, runs, disk, bak, using_testmon, baseline_test_time,
                   last, code, status, applied, source, pre, trail>>
    /\ UNCHANGED mmVars

(* -------------------- muckup/runner.py MutationTestRunner ------------- *)

\* run_test, line 178: the pass verdict of an exit code
run_test(rc) == rc = 0 \/ (using_testmon /\ rc = 5)

\* what popen_streaming_output can do under a deadline `limit` (0: none):
\* return an exit code after some elapsed time, raise TimeoutError once the
\* deadline has passed, or fail to spawn (OSError from Popen)
Outcomes(limit) ==
    {[kind |-> "exit", rc |-> r, elapsed |-> e] : r \in ExitCodes, e \in 1..MaxElapsed}
    \cup {[kind |-> "error", rc |-> -1, elapsed |-> 0]}
    \cup (IF limit = 0 THEN {}
          ELSE {[kind |-> "timeout", rc |-> -9, elapsed |-> limit]})

\* the baseline is run without a deadline; the time it takes is the T it yields
BaselineOutcomes ==
    {o \in Outcomes(0) : o.kind = "exit" => o.elapsed <= MaxBaseline}

\* time_test_suite, lines 151-157 (called by main, line 140, and by
\* run_mutation_tests, line 112, when no baseline time is known)
Runner_time_test_suite ==
    /\ prog = "muckup" /\ pc = "baseline"
    /\ \E o \in BaselineOutcomes :
         /\ last' = o
         /\ baseline_run' = o
         /\ IF o.kind = "error"
              THEN /\ exc' = "OSError"
                   /\ pc' = "fatal"
                   /\ UNCHANGED baseline_test_time
              ELSE IF run_test(o.rc)
                THEN /\ baseline_test_time' = o.elapsed
                     /\ exc' = exc
                     /\ pc' = "loop"
                ELSE /\ exc' = "RuntimeError:red"
                     /\ pc' = "fatal"
                     /\ UNCHANGED baseline_test_time
    /\ UNCHANGED <<prog, popen, registry, setup, walker, db, linedb, pre_mutation, post_mutation, cur, runs, disk, bak, using_testmon, code, status,
                   applied, source, pre, trail>>
    /\ UNCHANGED mmVars

\* compute_return_code, lines 204-213, with Python's | on the four flags
BitOr(a, b) ==
    LET RECURSIVE Or(_, _, _)
        Or(x, y, w) == IF x = 0 /\ y = 0 THEN 0
                       ELSE w * (IF x % 2 = 1 \/ y % 2 = 1 THEN 1 ELSE 0)
                            + Or(x \div 2, y \div 2, 2 * w)
    IN Or(a, b, 1)

compute_return_code(st, exception) ==
    LET c0 == 0
        c1 == IF exception # "none" THEN BitOr(c0, 1) ELSE c0
        c2 == IF \E m \in Mutants : st[m] = BAD_SURVIVED THEN BitOr(c1, 2) ELSE c1
        c4 == IF \E m \in Mutants : st[m] = BAD_TIMEOUT THEN BitOr(c2, 4) ELSE c2
        c8 == IF \E m \in Mutants : st[m] = OK_SUSPICIOUS THEN BitOr(c4, 8) ELSE c4
    IN c8

\* run_mutation_tests, lines 113-118: the loop head and the return
Runner_loop ==
    /\ prog = "muckup" /\ pc = "loop"
    /\ IF cur > NumMutants
         THEN /\ code' = compute_return_code(status, "none")
              /\ pc' = "done"
         ELSE /\ code' = code
              /\ pc' = "test_mutant"
    /\ UNCHANGED <<prog, popen, registry, setup, walker, db, linedb, pre_mutation, post_mutation, baseline_run, cur, runs, disk, bak, exc, using_testmon, baseline_test_time,
                   last, status, applied, source, pre, trail>>
    /\ UNCHANGED mmVars

\* test_mutant, lines 126-129: a tested mutant is left alone
Runner_test_mutant ==
    /\ prog = "muckup" /\ pc = "test_mutant"
    /\ IF status[cur] # UNTESTED
         THEN /\ pc' = "tested"
              /\ UNCHANGED pre
         ELSE /\ pc' = "apply"
              /\ pre' = disk[FileOf(cur)]
    /\ last' = NoRun
    /\ UNCHANGED <<prog, popen, registry, setup, walker, db, linedb, pre_mutation, post_mutation, baseline_run, cur, runs, disk, bak, exc, using_testmon, baseline_test_time,
                   code, status, applied, source, trail>>
    /\ UNCHANGED mmVars

\* test_mutant, lines 131-141: the classification of one test run
Runner_classify(o) ==
    IF o.kind = "timeout" THEN BAD_TIMEOUT
    ELSE IF o.elapsed > baseline_test_time * RunnerSuspiciousFactor THEN OK_SUSPICIOUS
    ELSE IF run_test(o.rc) THEN BAD_SURVIVED
    ELSE OK_KILLED

\* test_mutant, lines 130-141: run the tests against the applied mutant
Runner_run_test ==
    /\ prog = "muckup" /\ pc = "run_test"
    /\ \E o \in Outcomes(baseline_test_time * RunnerTimeoutFactor) :
         /\ last' = o
         /\ IF o.kind = "error"
              THEN /\ exc' = "OSError"
                   /\ UNCHANGED status
              ELSE /\ exc' = exc
                   /\ status' = [status EXCEPT ![cur] = Runner_classify(o)]
    /\ pc' = "finally"
    /\ UNCHANGED <<prog, popen, registry, setup, walker, db, linedb, pre_mutation, post_mutation, baseline_run, cur, runs, disk, bak, using_testmon, baseline_test_time,
                   code, applied, source, pre, trail>>
    /\ UNCHANGED mmVars

\* test_mutant, lines 142-143: finally: move(<file>.bak, <file>)
Runner_finally ==
    /\ prog = "muckup" /\ pc = "finally"
    /\ IF bak[FileOf(cur)] = Absent
         THEN /\ exc' = "FileNotFoundError"
              /\ pc' = "fatal"
              /\ UNCHANGED <<disk, bak>>
         ELSE /\ disk' = [disk EXCEPT ![FileOf(cur)] = bak[FileOf(cur)]]
              /\ bak' = [bak EXCEPT ![FileOf(cur)] = Absent]
              /\ exc' = exc
              /\ pc' = IF exc = "none" THEN "tested" ELSE "fatal"
    /\ UNCHANGED <<prog, popen, registry, setup, walker, db, linedb, pre_mutation, post_mutation, baseline_run, cur, runs, using_testmon, baseline_test_time,
                   last, code, status, applied, source, pre, trail>>
    /\ UNCHANGED mmVars

\* run_mutation_tests, lines 113 and 117: print the status, next mutant
Runner_next ==
    /\ prog = "muckup" /\ pc = "tested"
    /\ cur' = cur + 1
    /\ pc' = "loop"
    /\ UNCHANGED <<prog, popen, registry, setup, walker, db, linedb, pre_mutation, post_mutation, baseline_run, runs, disk, bak, exc, using_testmon, baseline_test_time,
                   last, code, status, applied, source, pre, trail>>
    /\ UNCHANGED mmVars

\* run_mutation_tests(mutants) called again on the same runner and mutants,
\* lines 108-113
Runner_again ==
    /\ prog = "muckup" /\ pc \in {"done", "fatal"}
    /\ runs < MaxRuns
    /\ runs' = runs + 1
    /\ cur' = 1
    /\ exc' = "none"
    /\ code' = -1
    /\ last' = NoRun
    /\ baseline_run' = NoRun
    /\ pc' = IF baseline_test_time = 0 THEN "baseline" ELSE "loop"
    /\ UNCHANGED <<prog, popen, registry, setup, walker, db, linedb, pre_mutation, post_mutation, disk, bak, using_testmon, baseline_test_time,
                   status, applied, source, pre, trail>>
    /\ UNCHANGED mmVars

(* ------------------------- mutmut/cache.py ---------------------------- *)

\* contents of the test suite, by their SHA256 (hash_of_tests, lines 112-127)
Hashes == {"h1", "h2"}

\* tested_against_hash of a row that never got one (Optional, line 70)
NoHash == ""

NoRow == [status |-> "no row", tested_against_hash |-> NoHash]

\* a registration that sets the status of every mutant of the mapping
register_mutants_anew(c, mutations_by_file) ==
    [m \in Mutants |-> IF m \in mutations_by_file
                         THEN [status |-> UNTESTED, tested_against_hash |-> NoHash]
                         ELSE c[m]]

\* register_mutants, lines 316-322: get_or_create with defaults
\* status=UNTESTED for every mutation id of the mapping
register_mutants(c, mutations_by_file) ==
    [m \in Mutants |-> IF m \in mutations_by_file /\ c[m] = NoRow
                         THEN [status |-> UNTESTED, tested_against_hash |-> NoHash]
                         ELSE c[m]]

\* a lookup that trusts every stored status, whatever the hashes
get_cached_mutation_status_trusting(c, m, tests_hash) ==
    IF c[m] = NoRow THEN "AttributeError"
    ELSE c[m].status

\* a lookup without the OK_KILLED shortcut of lines 370-373
get_cached_mutation_status_no_shortcut(c, m, tests_hash) ==
    IF c[m] = NoRow THEN "AttributeError"
    ELSE IF c[m].tested_against_hash # tests_hash THEN UNTESTED
    ELSE c[m].status

\* get_cached_mutation_status, lines 366-378 (a missing row: mutant is None)
get_cached_mutation_status(c, m, tests_hash) ==
    IF c[m] = NoRow THEN "AttributeError"
    ELSE IF c[m].status = OK_KILLED THEN OK_KILLED
    ELSE IF c[m].tested_against_hash # tests_hash THEN UNTESTED
    ELSE c[m].status

\* an update that stores the status and leaves the stored hash alone
set_cached_mutant_status_only(c, m, st, tests_hash) ==
    [c EXCEPT ![m] = [status |-> st, tested_against_hash |-> c[m].tested_against_hash]]

\* set_cached_mutant_status, lines 342-346
set_cached_mutant_status(c, m, st, tests_hash) ==
    [c EXCEPT ![m] = [status |-> st, tested_against_hash |-> tests_hash]]

(* ------------------------ mutmut/__main__.py -------------------------- *)

\* Config.__init__, lines 117-137: the settings the model reads and the
\* tallies; total is the number of mutants of the run (run_main, line 454)
NewConfig(mult, base, h) ==
    [test_time_multipler |-> mult, test_time_base |-> base, hash_of_tests |-> h,
     total |-> NumMutants, progress |-> 0, killed_mutants |-> 0, surviving_mutants |-> 0,
     surviving_mutants_timeout |-> 0, suspicious_mutants |-> 0]

\* a verdict that takes "no tests collected" for a pass in every mode
baseline_green_or_no_tests(rc) == rc = 0 \/ rc = 5

\* time_test_suite, line 815: the pass verdict of the baseline's exit code
baseline_green(rc) == rc = 0 \/ (using_testmon /\ rc = 5)

\* a verdict on a mutant run that takes exit code 5 for a pass in every mode
tests_pass_any_five(rc) == rc \in {0, 5}

\* tests_pass, line 656: the pass verdict of a mutant run's exit code
tests_pass(rc) == rc = 0 \/ (using_testmon /\ rc = 5)

\* a time_test_suite that does not look into the cache
time_test_suite_uncached ==
    /\ prog = "mutmut" /\ pc = "mm_baseline"
    /\ \E o \in BaselineOutcomes :
         /\ last' = o
         /\ baseline_run' = o
         /\ IF o.kind = "error"
              THEN /\ exc' = "OSError"
                   /\ pc' = "fatal"
                   /\ UNCHANGED <<baseline_test_time, cached_time>>
              ELSE IF baseline_green(o.rc)
                THEN /\ baseline_test_time' = o.elapsed
                     /\ cached_time' = o.elapsed
                     /\ exc' = exc
                     /\ pc' = "mm_generate"
                ELSE /\ exc' = "RuntimeError:red"
                     /\ pc' = "fatal"
                     /\ UNCHANGED <<baseline_test_time, cached_time>>
    /\ UNCHANGED <<prog, popen, registry, setup, walker, db, linedb, pre_mutation, post_mutation, cur, runs, disk, bak, using_testmon, code, status,
                   applied, source, pre, trail, cache, config, cached_status,
                   tested_against>>

\* time_test_suite, lines 796-826
time_test_suite ==
    /\ prog = "mutmut" /\ pc = "mm_baseline"
    /\ IF cached_time # 0
         THEN /\ baseline_test_time' = cached_time
              /\ pc' = "mm_generate"
              /\ UNCHANGED <<last, exc, cached_time, baseline_run>>
         ELSE \E o \in BaselineOutcomes :
                /\ last' = o
                /\ baseline_run' = o
                /\ IF o.kind = "error"
                     THEN /\ exc' = "OSError"
                          /\ pc' = "fatal"
                          /\ UNCHANGED <<baseline_test_time, cached_time>>
                     ELSE IF baseline_green(o.rc)
                       THEN /\ baseline_test_time' = o.elapsed
                            /\ cached_time' = o.elapsed
                            /\ exc' = exc
                            /\ pc' = "mm_generate"
                       ELSE /\ exc' = "RuntimeError:red"
                            /\ pc' = "fatal"
                            /\ UNCHANGED <<baseline_test_time, cached_time>>
    /\ UNCHANGED <<prog, popen, registry, setup, walker, db, linedb, pre_mutation, post_mutation, cur, runs, disk, bak, using_testmon, code, status,
                   applied, source, pre, trail, cache, config, cached_status,
                   tested_against>>

\* run_main, lines 442-473: gen_mutations_by_file registers the mutants
\* (line 552: after every file, the mapping of the files so far), then the
\* Config of the run is built
run_main_setup ==
    /\ prog = "mutmut" /\ pc = "mm_generate"
    /\ cache' = register_mutants(cache, Mutants)
    /\ \E base \in DefaultTimeBase..MaxBase, h \in Hashes :
         config' = NewConfig(DefaultTimeMultiplier, base, h)
    /\ pc' = "mm_lookup"
    /\ UNCHANGED <<prog, popen, registry, setup, walker, db, linedb, pre_mutation, post_mutation, baseline_run, cur, runs, disk, bak, exc, using_testmon, baseline_test_time,
                   last, code, status, applied, source, pre, trail,
                   cached_time, cached_status, tested_against>>

\* tallies that leave out the mutants that timed out
Tally_without_timeouts(cfg, st) ==
    IF st = BAD_SURVIVED THEN [cfg EXCEPT !.surviving_mutants = @ + 1]
    ELSE IF st = OK_KILLED THEN [cfg EXCEPT !.killed_mutants = @ + 1]
    ELSE IF st = OK_SUSPICIOUS THEN [cfg EXCEPT !.suspicious_mutants = @ + 1]
    ELSE cfg

\* run_mutation, lines 677-686 and 706-719: one more mutant of status st
Tally(cfg, st) ==
    IF st = BAD_SURVIVED THEN [cfg EXCEPT !.surviving_mutants = @ + 1]
    ELSE IF st = BAD_TIMEOUT THEN [cfg EXCEPT !.surviving_mutants_timeout = @ + 1]
    ELSE IF st = OK_KILLED THEN [cfg EXCEPT !.killed_mutants = @ + 1]
    ELSE IF st = OK_SUSPICIOUS THEN [cfg EXCEPT !.suspicious_mutants = @ + 1]
    ELSE cfg

\* subprocess.check_output(command, shell=True), lines 691-692 and 725-726:
\* nothing is run when no command is configured; else the command exits with
\* 0 or with a non-zero code, for which check_output raises CalledProcessError
check_output(command) ==
    IF command THEN {[kind |-> "hook", rc |-> r, elapsed |-> 0] : r \in {0, 1}}
    ELSE {NoRun}

HookFailed(h) == h.kind = "hook" /\ h.rc # 0

\* a run_mutation that returns a cached status without counting it
run_mutation_lookup_untallied ==
    /\ prog = "mutmut" /\ pc = "mm_lookup"
    /\ LET cs == get_cached_mutation_status(cache, cur, config.hash_of_tests) IN
         /\ cached_status' = cs
         /\ IF cs \notin MutantTestStatus
              THEN /\ exc' = cs
                   /\ pc' = "mm_exit"
                   /\ last' = NoRun
                   /\ UNCHANGED <<status, pre, trail>>
              ELSE /\ IF cs # UNTESTED
                        THEN /\ status' = [status EXCEPT ![cur] = cs]
                             /\ pc' = "mm_update"
                             /\ exc' = exc
                             /\ last' = NoRun
                             /\ UNCHANGED <<pre, trail>>
                        ELSE /\ \E h \in check_output(pre_mutation) :
                                  /\ last' = h
                                  /\ trail' = IF h.kind = "hook"
                                              THEN Remember(<<"pre_mutation", cur, disk[FileOf(cur)]>>)
                                              ELSE trail
                                  /\ exc' = IF HookFailed(h) THEN "CalledProcessError"
                                            ELSE exc
                                  /\ pc' = IF HookFailed(h) THEN "mm_exit"
                                           ELSE "mm_backup"
                             /\ pre' = disk[FileOf(cur)]
                             /\ UNCHANGED status
    /\ UNCHANGED <<prog, popen, registry, setup, walker, db, linedb, pre_mutation, post_mutation, baseline_run, cur, runs, disk, bak, using_testmon,
                   baseline_test_time, code, applied, source, cache,
                   cached_time, tested_against, config>>

\* run_mutation, lines 675-694: the cache lookup and its early return, then
\* the pre-mutation hook
run_mutation_lookup ==
    /\ prog = "mutmut" /\ pc = "mm_lookup"
    /\ LET cs == get_cached_mutation_status(cache, cur, config.hash_of_tests) IN
         /\ cached_status' = cs
         /\ IF cs \notin MutantTestStatus
              THEN /\ exc' = cs
                   /\ pc' = "mm_exit"
                   /\ last' = NoRun
                   /\ UNCHANGED <<config, status, pre, trail>>
              ELSE /\ config' = Tally(config, cs)
                   /\ IF cs # UNTESTED
                        THEN /\ status' = [status EXCEPT ![cur] = cs]
                             /\ pc' = "mm_update"
                             /\ exc' = exc
                             /\ last' = NoRun
                             /\ UNCHANGED <<pre, trail>>
                        ELSE /\ \E h \in check_output(pre_mutation) :
                                  /\ last' = h
                                  /\ trail' = IF h.kind = "hook"
                                              THEN Remember(<<"pre_mutation", cur, disk[FileOf(cur)]>>)
                                              ELSE trail
                                  /\ exc' = IF HookFailed(h) THEN "CalledProcessError"
                                            ELSE exc
                                  /\ pc' = IF HookFailed(h) THEN "mm_exit"
                                           ELSE "mm_backup"
                             /\ pre' = disk[FileOf(cur)]
                             /\ UNCHANGED status
    /\ UNCHANGED <<prog, popen, registry, setup, walker, db, linedb, pre_mutation, post_mutation, baseline_run, cur, runs, disk, bak, using_testmon, baseline_test_time,
                   code, applied, source, cache, cached_time, tested_against>>

\* mutate_file(backup=True, ...), called at lines 698-701: the file's content
\* is written to <file>.bak
mutate_file_backup ==
    /\ prog = "mutmut" /\ pc = "mm_backup"
    /\ bak' = [bak EXCEPT ![FileOf(cur)] = disk[FileOf(cur)]]
    /\ pc' = "mm_truncate"
    /\ UNCHANGED <<prog, popen, registry, setup, walker, db, linedb, pre_mutation, post_mutation, baseline_run, cur, runs, disk, exc, using_testmon, baseline_test_time,
                   last, code, status, applied, source, pre, trail>>
    /\ UNCHANGED mmVars

\* mutate_file: the source file is opened for writing
mutate_file_truncate ==
    /\ prog = "mutmut" /\ pc = "mm_truncate"
    /\ disk' = [disk EXCEPT ![FileOf(cur)] = Empty]
    /\ pc' = "mm_write"
    /\ UNCHANGED <<prog, popen, registry, setup, walker, db, linedb, pre_mutation, post_mutation, baseline_run, cur, runs, bak, exc, using_testmon, baseline_test_time,
                   last, code, status, applied, source, pre, trail>>
    /\ UNCHANGED mmVars

\* mutate_file: the mutated source is written over the source file
mutate_file_write ==
    /\ prog = "mutmut" /\ pc = "mm_write"
    /\ disk' = [disk EXCEPT ![FileOf(cur)] = MutatedSource(cur)]
    /\ pc' = "mm_tests"
    /\ UNCHANGED <<prog, popen, registry, setup, walker, db, linedb, pre_mutation, post_mutation, baseline_run, cur, runs, bak, exc, using_testmon, baseline_test_time,
                   last, code, status, applied, source, pre, trail>>
    /\ UNCHANGED mmVars

\* run_mutation, lines 703-720: the status of one test run
run_mutation_classify(o) ==
    IF o.kind = "timeout" THEN BAD_TIMEOUT
    ELSE IF ~tests_pass(o.rc)
            /\ o.elapsed > config.test_time_base
                           + baseline_test_time * config.test_time_multipler
      THEN OK_SUSPICIOUS
    ELSE IF tests_pass(o.rc) THEN BAD_SURVIVED
    ELSE OK_KILLED

\* run_mutation, lines 702-720, with tests_pass, lines 646-656
run_mutation_tests_pass ==
    /\ prog = "mutmut" /\ pc = "mm_tests"
    /\ \E o \in Outcomes(baseline_test_time * TestsPassTimeoutFactor) :
         /\ last' = o
         /\ IF o.kind = "error"
              THEN /\ exc' = "OSError"
                   /\ UNCHANGED <<status, config, tested_against>>
              ELSE /\ exc' = exc
                   /\ status' = [status EXCEPT ![cur] = run_mutation_classify(o)]
                   /\ config' = Tally(config, run_mutation_classify(o))
                   /\ tested_against' =
                        [tested_against EXCEPT ![cur] = config.hash_of_tests]
    /\ pc' = "mm_finally"
    /\ UNCHANGED <<prog, popen, registry, setup, walker, db, linedb, pre_mutation, post_mutation, baseline_run, cur, runs, disk, bak, using_testmon, baseline_test_time,
                   code, applied, source, pre, trail, cache, cached_time, cached_status>>

\* a run_mutation whose move sits after the try statement instead of in its
\* finally clause: a TimeoutError branch that returns early skips the restore
run_mutation_restore_unless_timeout ==
    /\ prog = "mutmut" /\ pc = "mm_finally"
    /\ IF last.kind = "timeout"
         THEN /\ pc' = "mm_update"
              /\ UNCHANGED <<disk, bak, exc, trail>>
         ELSE IF bak[FileOf(cur)] = Absent
           THEN /\ exc' = "FileNotFoundError"
                /\ pc' = "mm_exit"
                /\ UNCHANGED <<disk, bak, trail>>
           ELSE /\ disk' = [disk EXCEPT ![FileOf(cur)] = bak[FileOf(cur)]]
                /\ bak' = [bak EXCEPT ![FileOf(cur)] = Absent]
                /\ \E h \in check_output(post_mutation) :
                     /\ trail' = IF h.kind = "hook"
                                 THEN Remember(<<"post_mutation", cur, bak[FileOf(cur)]>>)
                                 ELSE trail
                     /\ exc' = IF HookFailed(h) THEN "CalledProcessError" ELSE exc
                     /\ pc' = IF exc = "none" /\ ~HookFailed(h) THEN "mm_update"
                              ELSE "mm_exit"
    /\ UNCHANGED <<prog, popen, registry, setup, walker, db, linedb, pre_mutation, post_mutation, baseline_run, cur, runs, using_testmon, baseline_test_time,
                   last, code, status, applied, source, pre>>
    /\ UNCHANGED mmVars

\* run_mutation, lines 721-728: finally: move(filename + '.bak', filename),
\* then the post-mutation hook
run_mutation_finally ==
    /\ prog = "mutmut" /\ pc = "mm_finally"
    /\ IF bak[FileOf(cur)] = Absent
         THEN /\ exc' = "FileNotFoundError"
              /\ pc' = "mm_exit"
              /\ UNCHANGED <<disk, bak, trail>>
         ELSE /\ disk' = [disk EXCEPT ![FileOf(cur)] = bak[FileOf(cur)]]
              /\ bak' = [bak EXCEPT ![FileOf(cur)] = Absent]
              /\ \E h \in check_output(post_mutation) :
                   /\ trail' = IF h.kind = "hook"
                               THEN Remember(<<"post_mutation", cur, bak[FileOf(cur)]>>)
                               ELSE trail
                   /\ exc' = IF HookFailed(h) THEN "CalledProcessError" ELSE exc
                   /\ pc' = IF exc = "none" /\ ~HookFailed(h) THEN "mm_update"
                            ELSE "mm_exit"
    /\ UNCHANGED <<prog, popen, registry, setup, walker, db, linedb, pre_mutation, post_mutation, baseline_run, cur, runs, using_testmon, baseline_test_time,
                   last, code, status, applied, source, pre>>
    /\ UNCHANGED mmVars

\* a run_mutation_tests that stores the status and moves on to the next
\* mutant without waiting for run_mutation to restore the file
run_mutation_tests_update_early ==
    /\ prog = "mutmut" /\ pc \in {"mm_finally", "mm_update"}
    /\ cache' = set_cached_mutant_status(cache, cur, status[cur], config.hash_of_tests)
    /\ config' = [config EXCEPT !.progress = @ + 1]
    /\ cur' = cur + 1
    /\ pc' = IF cur + 1 > NumMutants THEN "mm_exit" ELSE "mm_lookup"
    /\ UNCHANGED <<prog, popen, registry, setup, walker, db, linedb, pre_mutation, post_mutation, baseline_run, runs, disk, bak, exc, using_testmon, baseline_test_time,
                   last, code, status, applied, source, pre, trail,
                   cached_time, cached_status, tested_against>>

\* run_mutation_tests, lines 739-743: persist the status, count the mutant
run_mutation_tests_update ==
    /\ prog = "mutmut" /\ pc = "mm_update"
    /\ cache' = set_cached_mutant_status(cache, cur, status[cur], config.hash_of_tests)
    /\ config' = [config EXCEPT !.progress = @ + 1]
    /\ cur' = cur + 1
    /\ pc' = IF cur + 1 > NumMutants THEN "mm_exit" ELSE "mm_lookup"
    /\ UNCHANGED <<prog, popen, registry, setup, walker, db, linedb, pre_mutation, post_mutation, baseline_run, runs, disk, bak, exc, using_testmon, baseline_test_time,
                   last, code, status, applied, source, pre, trail,
                   cached_time, cached_status, tested_against>>

\* an exit code that counts a timed-out mutant as a survivor as well
compute_exit_code_timeout_survives(cfg, exception) ==
    LET c0 == 0
        c1 == IF exception # "none" THEN BitOr(c0, 1) ELSE c0
        c2 == IF cfg.surviving_mutants + cfg.surviving_mutants_timeout > 0
                THEN BitOr(c1, 2) ELSE c1
        c4 == IF cfg.surviving_mutants_timeout > 0 THEN BitOr(c2, 4) ELSE c2
        c8 == IF cfg.suspicious_mutants > 0 THEN BitOr(c4, 8) ELSE c4
    IN c8

\* compute_exit_code, lines 885-894
compute_exit_code(cfg, exception) ==
    LET c0 == 0
        c1 == IF exception # "none" THEN BitOr(c0, 1) ELSE c0
        c2 == IF cfg.surviving_mutants > 0 THEN BitOr(c1, 2) ELSE c1
        c4 == IF cfg.surviving_mutants_timeout > 0 THEN BitOr(c2, 4) ELSE c2
        c8 == IF cfg.suspicious_mutants > 0 THEN BitOr(c4, 8) ELSE c4
    IN c8

\* run_main, lines 475-481: the exit code of the run
run_main_exit ==
    /\ prog = "mutmut" /\ pc = "mm_exit"
    /\ code' = compute_exit_code(config, exc)
    /\ pc' = "done"
    /\ UNCHANGED <<prog, popen, registry, setup, walker, db, linedb, pre_mutation, post_mutation, baseline_run, cur, runs, disk, bak, exc, using_testmon, baseline_test_time,
                   last, status, applied, source, pre, trail>>
    /\ UNCHANGED mmVars

BlankConfig == NewConfig(DefaultTimeMultiplier, DefaultTimeBase, NoHash)

\* `mutmut run` is invoked again: a new process over the same working
\* directory (sources and .mutmut-cache stay as the last run left them)
run_main_again ==
    /\ prog = "mutmut" /\ pc \in {"done", "fatal"}
    /\ runs < MaxRuns
    /\ runs' = runs + 1
    /\ cur' = 1
    /\ exc' = "none"
    /\ code' = -1
    /\ last' = NoRun
    /\ baseline_test_time' = 0
    /\ status' = [m \in Mutants |-> UNTESTED]
    /\ config' = BlankConfig
    /\ cached_status' = UNTESTED
    /\ baseline_run' = NoRun
    /\ pc' = "mm_baseline"
    /\ UNCHANGED <<prog, popen, registry, setup, walker, db, linedb, pre_mutation, post_mutation, disk, bak, using_testmon, applied, source, pre, trail,
                   cache, cached_time, tested_against>>

(* ------------------------------ the model ----------------------------- *)

Init ==
    /\ prog \in {"muckup", "api", "mutmut"}
    /\ pc = CASE prog = "api" -> "idle"
              [] prog = "muckup" -> "baseline"
              [] prog = "mutmut" -> "mm_baseline"
    /\ cur = 1
    /\ runs = 1
    /\ disk \in IF prog = "api" THEN [Files -> UNION {{Orig(f), Edited(f)} : f \in Files}]
                ELSE {[f \in Files |-> Orig(f)]}
    /\ \A f \in Files : disk[f] \in {Orig(f), Edited(f)}
    /\ bak = [f \in Files |-> Absent]
    /\ exc = "none"
    /\ using_testmon \in BOOLEAN
    /\ baseline_test_time = 0
    /\ last = NoRun
    /\ code = -1
    /\ status = [m \in Mutants |-> UNTESTED]
    /\ applied = [m \in Mutants |-> FALSE]
    /\ source = [m \in Mutants |-> Orig(FileOf(m))]
    /\ pre = Empty
    /\ trail = <<>>
    /\ cache = [m \in Mutants |-> NoRow]
    /\ cached_time = 0
    /\ config = BlankConfig
    /\ cached_status = UNTESTED
    /\ tested_against = [m \in Mutants |-> NoHash]
    /\ baseline_run = NoRun
    /\ registry = NoRegistry
    /\ setup = NoSetup
    /\ walker = NoWalker
    /\ db = NoDb
    /\ popen = NoPopen
    /\ pre_mutation = FALSE
    /\ post_mutation = FALSE
    /\ linedb = NoLines

Next ==
    \/ Mutant_apply_check
    \/ Mutant_apply_open_bak
    \/ Mutant_apply_write_bak
    \/ Mutant_apply_open_file
    \/ Mutant_apply_write_file
    \/ Mutant_apply_set
    \/ Mutant_revert_check
    \/ Mutant_revert_move
    \/ Mutant_revert_clear
    \/ Call_apply
    \/ Call_revert
    \/ Runner_time_test_suite
    \/ Runner_loop
    \/ Runner_test_mutant
    \/ Runner_run_test
    \/ Runner_finally
    \/ Runner_next
    \/ Runner_again
    \/ time_test_suite
    \/ run_main_setup
    \/ run_mutation_lookup
    \/ mutate_file_backup
    \/ mutate_file_truncate
    \/ mutate_file_write
    \/ run_mutation_tests_pass
    \/ run_mutation_finally
    \/ run_mutation_tests_update
    \/ run_main_exit
    \/ run_main_again

Spec == Init /\ [][Next]_vars

(* ------------- mutmut/cache.py: the cached lines of a file ------------ *)

\* texts are tuples of characters; a line as readlines() yields it ends
\* with the newline character, except possibly the last line of the file
NL == "\\n"
Texts == {<<"a">>, <<"b">>, <<"c">>}

\* Python's None, as zip_longest fills the shorter of its arguments
None == <<"None">>
NoneIndex == -1

\* the sequences over S of length at most n
SeqUpTo(S, n) == UNION {[1..k -> S] : k \in 0..n}

\* the contents a source file can have: up to MaxLen lines, the last one
\* with or without its newline
FileContents ==
    {[i \in 1..Len(t) |-> t[i] \o <<NL>>] : t \in SeqUpTo(Texts, MaxLen)}
    \cup {[i \in 1..Len(t) |-> IF i = Len(t) THEN t[i] ELSE t[i] \o <<NL>>] :
            t \in SeqUpTo(Texts, MaxLen) \ {<<>>}}

\* x[:-1], line 281
ChopLast(x) == SubSeq(x, 1, Len(x) - 1)

\* existing_lines, lines 279-281
existing_lines_of(f) == [i \in 1..Len(f) |-> ChopLast(f[i])]

\* difflib.SequenceMatcher.find_longest_match(alo, ahi, blo, bhi) without
\* junk (autojunk needs 200 elements): the longest block a[i:i+k] = b[j:j+k]
\* within the bounds, of those the one that starts earliest in a, of those
\* the one that starts earliest in b; <<alo, blo, 0>> if nothing matches.
\* Indices are zero-based as in Python: a[i] is the TLA+ element a[i + 1].
RECURSIVE match_length(_, _, _, _, _, _)
match_length(a, b, i, j, ahi, bhi) ==
    IF i < ahi /\ j < bhi /\ a[i + 1] = b[j + 1]
      THEN 1 + match_length(a, b, i + 1, j + 1, ahi, bhi)
    ELSE 0

find_longest_match(a, b, alo, ahi, blo, bhi) ==
    LET starts == (alo..(ahi - 1)) \X (blo..(bhi - 1))
        size(p) == match_length(a, b, p[1], p[2], ahi, bhi)
        better(p, q) == \/ size(p) > size(q)
                        \/ size(p) = size(q) /\ p[1] < q[1]
                        \/ size(p) = size(q) /\ p[1] = q[1] /\ p[2] < q[2]
        best == CHOOSE p \in starts : \A q \in starts \ {p} : better(p, q)
    IN IF starts = {} \/ size(best) = 0 THEN <<alo, blo, 0>>
       ELSE <<best[1], best[2], size(best)>>

\* SequenceMatcher.get_matching_blocks, without the closing dummy block: the
\* longest match, then recursively the matches to its left and to its right
RECURSIVE get_matching_blocks(_, _, _, _, _, _)
get_matching_blocks(a, b, alo, ahi, blo, bhi) ==
    LET m == find_longest_match(a, b, alo, ahi, blo, bhi)
        left == IF alo < m[1] /\ blo < m[2]
                  THEN get_matching_blocks(a, b, alo, m[1], blo, m[2]) ELSE <<>>
        right == IF m[1] + m[3] < ahi /\ m[2] + m[3] < bhi
                   THEN get_matching_blocks(a, b, m[1] + m[3], ahi, m[2] + m[3], bhi)
                 ELSE <<>>
    IN IF m[3] = 0 THEN <<>> ELSE left \o <<m>> \o right

\* SequenceMatcher.get_opcodes: <<tag, i1, i2, j1, j2>> for the gaps between
\* the matching blocks (closed by the dummy <<len(a), len(b), 0>>) and for
\* the blocks themselves
RECURSIVE opcodes_from(_, _, _)
opcodes_from(blocks, i, j) ==
    IF blocks = <<>> THEN <<>>
    ELSE LET ai == Head(blocks)[1]
             bj == Head(blocks)[2]
             size == Head(blocks)[3]
             gap == IF i < ai /\ j < bj THEN <<<<"replace", i, ai, j, bj>>>>
                    ELSE IF i < ai THEN <<<<"delete", i, ai, j, bj>>>>
                    ELSE IF j < bj THEN <<<<"insert", i, ai, j, bj>>>>
                    ELSE <<>>
             equal == IF size > 0 THEN <<<<"equal", ai, ai + size, bj, bj + size>>>>
                      ELSE <<>>
         IN gap \o equal \o opcodes_from(Tail(blocks), ai + size, bj + size)

get_opcodes(a, b) ==
    opcodes_from(get_matching_blocks(a, b, 0, Len(a), 0, Len(b))
                   \o <<<<Len(a), Len(b), 0>>>>, 0, 0)

\* zip_longest(a[i1:i2], range(i1, i2), b[j1:j2], range(j1, j2)) under one tag
zip_longest(tag, a, i1, i2, b, j1, j2) ==
    LET n == IF i2 - i1 > j2 - j1 THEN i2 - i1 ELSE j2 - j1 IN
    [k \in 1..n |->
        [command |-> tag,
         a |-> IF i1 + k - 1 < i2 THEN a[i1 + k] ELSE None,
         a_index |-> IF i1 + k - 1 < i2 THEN i1 + k - 1 ELSE NoneIndex,
         b |-> IF j1 + k - 1 < j2 THEN b[j1 + k] ELSE None,
         b_index |-> IF j1 + k - 1 < j2 THEN j1 + k - 1 ELSE NoneIndex]]

\* sequence_ops(a, b), lines 244-261
RECURSIVE ops_of(_, _, _)
ops_of(codes, a, b) ==
    IF codes = <<>> THEN <<>>
    ELSE LET c == Head(codes) IN
         zip_longest(c[1], a, c[2], c[3], b, c[4], c[5]) \o ops_of(Tail(codes), a, b)

sequence_ops(a, b) == ops_of(get_opcodes(a, b), a, b)

\* Line(sourcefile=sourcefile, line=line, line_number=i): a new row, with no
\* Mutant rows yet
NewLine(text, number) == [line |-> text, line_number |-> number, mutants |-> {}]

\* list(sourcefile.lines.order_by(Line.line_number)), line 274
RECURSIVE order_by_line_number(_)
order_by_line_number(rows) ==
    IF rows = <<>> THEN <<>>
    ELSE LET k == CHOOSE i \in 1..Len(rows) :
                    \A j \in 1..Len(rows) :
                        \/ rows[i].line_number < rows[j].line_number
                        \/ rows[i].line_number = rows[j].line_number /\ i <= j
             rest == [j \in 1..(Len(rows) - 1) |-> IF j < k THEN rows[j] ELSE rows[j + 1]]
         IN <<rows[k]>> \o order_by_line_number(rest)

\* the loop body of update_line_numbers, lines 288-305, on the state
\* [objs: cached_line_objects, deleted: positions deleted, created: new
\* rows, err]; deleting a Line deletes its Mutant rows with it
apply_op(st, op, existing_lines) ==
    LET del == [st EXCEPT !.deleted = @ \cup {op.a_index + 1}]
        new(t) == [t EXCEPT !.created = Append(@, NewLine(op.b, op.b_index))]
    IN
    IF op.command = "equal"
      THEN IF op.a_index = op.b_index THEN st
           ELSE IF st.objs[op.a_index + 1].line # existing_lines[op.b_index + 1]
             THEN [st EXCEPT !.err = "AssertionError"]
           ELSE [st EXCEPT !.objs[op.a_index + 1].line_number = op.b_index]
    ELSE IF op.command = "delete" THEN del
    ELSE IF op.command = "insert" THEN new(st)
    ELSE IF op.command = "replace"
      THEN IF op.a_index = NoneIndex THEN [st EXCEPT !.err = "TypeError"]
           ELSE IF op.b_index = NoneIndex THEN [del EXCEPT !.err = "ValueError"]
           ELSE new(del)
    ELSE [st EXCEPT !.err = "AssertionError"]

RECURSIVE apply_ops(_, _, _)
apply_ops(st, ops, existing_lines) ==
    IF ops = <<>> \/ st.err # "none" THEN st
    ELSE apply_ops(apply_op(st, Head(ops), existing_lines), Tail(ops), existing_lines)

\* the elements of s at the positions in keep, in order
RECURSIVE select(_, _, _)
select(s, keep, i) ==
    IF i > Len(s) THEN <<>>
    ELSE (IF i \in keep THEN <<s[i]>> ELSE <<>>) \o select(s, keep, i + 1)

\* update_line_numbers(filename), lines 264-305, under @db_session: the rows
\* of the file afterwards and the exception raised, if any (the session is
\* rolled back when the function raises)
update_line_numbers(rows, file) ==
    LET cached_line_objects == order_by_line_number(rows)
        cached_lines == [i \in 1..Len(cached_line_objects) |-> cached_line_objects[i].line]
        existing_lines == existing_lines_of(file)
        end == apply_ops([objs |-> cached_line_objects, deleted |-> {},
                          created |-> <<>>, err |-> "none"],
                         sequence_ops(cached_lines, existing_lines), existing_lines)
    IN
    IF cached_lines = <<>>
      THEN [rows |-> [i \in 1..Len(existing_lines) |-> NewLine(existing_lines[i], i - 1)],
            err |-> "none"]
    ELSE IF end.err # "none" THEN [rows |-> rows, err |-> end.err]
    ELSE [rows |-> select(end.objs, (1..Len(end.objs)) \ end.deleted, 1) \o end.created,
          err |-> "none"]

\* a mutant of a line that a previous run registered and tested
TestedMutant == [index |-> 0, status |-> BAD_SURVIVED, tested_against_hash |-> "h1"]

\* gen_mutations_by_file, line 540: update_line_numbers(filename) on the
\* file as it is now
update_line_numbers_call ==
    /\ linedb.where = "edited"
    /\ LET r == update_line_numbers(linedb.rows, linedb.file) IN
         linedb' = [linedb EXCEPT !.where = "updated", !.before = linedb.rows,
                                  !.rows = r.rows, !.err = r.err]
    /\ UNCHANGED <<mainVars, popen, db, walker, setup, registry>>

\* the user edits the file after the run that cached its lines
edit_file ==
    /\ linedb.where = "cached"
    /\ \E f \in FileContents :
         linedb' = [linedb EXCEPT !.where = "edited", !.file = f]
    /\ UNCHANGED <<mainVars, popen, db, walker, setup, registry>>

\* a file whose lines an earlier run has cached (update_line_numbers on an
\* empty cache, lines 283-286), with tested mutants on some of the lines
InitLines ==
    /\ prog = "lines"
    /\ pc = "update_line_numbers"
    /\ cur = 1
    /\ runs = 1
    /\ disk = [f \in Files |-> Orig(f)]
    /\ bak = [f \in Files |-> Absent]
    /\ exc = "none"
    /\ using_testmon = FALSE
    /\ baseline_test_time = 0
    /\ last = NoRun
    /\ code = -1
    /\ status = [m \in Mutants |-> UNTESTED]
    /\ applied = [m \in Mutants |-> FALSE]
    /\ source = [m \in Mutants |-> Orig(FileOf(m))]
    /\ pre = Empty
    /\ trail = <<>>
    /\ cache = [m \in Mutants |-> NoRow]
    /\ cached_time = 0
    /\ config = BlankConfig
    /\ cached_status = UNTESTED
    /\ tested_against = [m \in Mutants |-> NoHash]
    /\ baseline_run = NoRun
    /\ registry = NoRegistry
    /\ setup = NoSetup
    /\ walker = NoWalker
    /\ db = NoDb
    /\ popen = NoPopen
    /\ pre_mutation = FALSE
    /\ post_mutation = FALSE
    /\ \E old \in FileContents :
         \E tested \in SUBSET (1..Len(old)) :
            LET first == update_line_numbers(<<>>, old).rows IN
            linedb = [where |-> "cached", file |-> old, before |-> <<>>, err |-> "none",
                      rows |-> [i \in 1..Len(old) |->
                                  [first[i] EXCEPT
                                     !.mutants = IF i \in tested THEN {TestedMutant}
                                                 ELSE {}]]]

NextLines ==
    \/ edit_file
    \/ update_line_numbers_call

SpecLines == InitLines /\ [][NextLines]_vars

(* ---------------- mutmut/cache.py: init_db and the version ------------ *)

\* current_db_version, line 47
current_db_version == 2

\* the values a 'version' row of MiscData can hold, written by str(version)
\* of this engine, an older or a newer one; "none": no such row
VersionStamps == {"1", "2", "3"}

\* str(current_db_version), line 106, and int(v.value), line 94
str(n) == CASE n = 1 -> "1" [] n = 2 -> "2" [] n = 3 -> "3"
int(t) == CASE t = "1" -> 1 [] t = "2" -> 2 [] t = "3" -> 3

\* the kinds of rows the store holds besides the version stamp
DbRows == {"SourceFile", "Line", "Mutant", "baseline_time_elapsed"}

\* init_db, lines 87-96: the version the store was built with; no 'version'
\* row, or a query that raises on a store with another schema, counts as 1
existing_db_version(d) ==
    IF d.old_schema \/ d.version = "none" THEN 1 ELSE int(d.version)

\* a wrapper that stamps the version and never clears the store
init_db_keep ==
    /\ ~db.provider
    /\ db' = [db EXCEPT !.provider = TRUE, !.file = TRUE, !.where = "opened",
                        !.before = <<[version |-> existing_db_version(db),
                                      rows |-> db.rows]>>,
                        !.old_schema = FALSE,
                        !.version = str(current_db_version)]
    /\ UNCHANGED <<mainVars, popen, linedb, walker, setup, registry>>

\* init_db's wrapper, lines 77-107, on the first cache call of a process:
\* bind (the file is created if absent), read the version, drop every table
\* with its data and rebuild if it is not the current one, stamp the version
init_db ==
    /\ ~db.provider
    /\ db' = [db EXCEPT !.provider = TRUE, !.file = TRUE, !.where = "opened",
                        !.before = <<[version |-> existing_db_version(db),
                                      rows |-> db.rows]>>,
                        !.old_schema = FALSE,
                        !.rows = IF existing_db_version(db) # current_db_version
                                   THEN {} ELSE db.rows,
                        !.version = str(current_db_version)]
    /\ UNCHANGED <<mainVars, popen, linedb, walker, setup, registry>>

\* a cache function called with the database bound (lines 109-110: f runs;
\* register_mutants, update_line_numbers, set_cached_test_time add rows)
db_write ==
    /\ db.provider
    /\ \E r \in DbRows \ db.rows :
         db' = [db EXCEPT !.rows = @ \cup {r}, !.where = "used"]
    /\ UNCHANGED <<mainVars, popen, linedb, walker, setup, registry>>

\* the process ends; the next `mutmut` process starts with db.provider None
process_exit ==
    /\ db.provider
    /\ db' = [db EXCEPT !.provider = FALSE, !.where = "closed", !.before = <<>>]
    /\ UNCHANGED <<mainVars, popen, linedb, walker, setup, registry>>

\* a working directory with no .mutmut-cache, or with one left by this
\* engine, an older or a newer one
InitDb ==
    /\ prog = "cache"
    /\ pc = "init_db"
    /\ cur = 1
    /\ runs = 1
    /\ disk = [f \in Files |-> Orig(f)]
    /\ bak = [f \in Files |-> Absent]
    /\ exc = "none"
    /\ using_testmon = FALSE
    /\ baseline_test_time = 0
    /\ last = NoRun
    /\ code = -1
    /\ status = [m \in Mutants |-> UNTESTED]
    /\ applied = [m \in Mutants |-> FALSE]
    /\ source = [m \in Mutants |-> Orig(FileOf(m))]
    /\ pre = Empty
    /\ trail = <<>>
    /\ cache = [m \in Mutants |-> NoRow]
    /\ cached_time = 0
    /\ config = BlankConfig
    /\ cached_status = UNTESTED
    /\ tested_against = [m \in Mutants |-> NoHash]
    /\ baseline_run = NoRun
    /\ registry = NoRegistry
    /\ setup = NoSetup
    /\ walker = NoWalker
    /\ popen = NoPopen
    /\ pre_mutation = FALSE
    /\ post_mutation = FALSE
    /\ linedb = NoLines
    /\ \/ db = [NoDb EXCEPT !.where = "closed"]
       \/ \E v \in VersionStamps \cup {"none"}, rs \in SUBSET DbRows, old \in BOOLEAN :
            /\ old => v # str(current_db_version)
            /\ db = [NoDb EXCEPT !.where = "closed", !.file = TRUE, !.version = v,
                                 !.rows = rs, !.old_schema = old]

NextDb ==
    \/ init_db
    \/ db_write
    \/ process_exit

SpecDb == InitDb /\ [][NextDb]_vars

(* ------------------ mutmut/cache.py: register_mutants ------------------ *)

\* the rows a cache can hold for a mutant: none, one that was never tested,
\* one with the status and the hash of the tests of its last test run
CachedRows ==
    {NoRow, [status |-> UNTESTED, tested_against_hash |-> NoHash]}
    \cup {[status |-> st, tested_against_hash |-> h] : st \in Terminal, h \in Hashes}

\* register_mutants(mutations_by_file) is called, for the first time or again
\* with the same mapping
register_mutants_call ==
    /\ registry.at = "idle"
    /\ registry.calls < 2
    /\ registry' = [registry EXCEPT
                       !.rows = register_mutants(registry.rows, registry.mutations_by_file),
                       !.once = IF registry.calls = 0
                                THEN register_mutants(registry.rows, registry.mutations_by_file)
                                ELSE @,
                       !.calls = @ + 1]
    /\ UNCHANGED <<mainVars, popen, linedb, db, walker, setup>>

\* a cache with any rows, and any mapping of its mutants to register
InitRegister ==
    /\ prog = "register"
    /\ pc = "register_mutants"
    /\ cur = 1
    /\ runs = 1
    /\ disk = [f \in Files |-> Orig(f)]
    /\ bak = [f \in Files |-> Absent]
    /\ exc = "none"
    /\ using_testmon = FALSE
    /\ baseline_test_time = 0
    /\ last = NoRun
    /\ code = -1
    /\ status = [m \in Mutants |-> UNTESTED]
    /\ applied = [m \in Mutants |-> FALSE]
    /\ source = [m \in Mutants |-> Orig(FileOf(m))]
    /\ pre = Empty
    /\ trail = <<>>
    /\ cache = [m \in Mutants |-> NoRow]
    /\ cached_time = 0
    /\ config = BlankConfig
    /\ cached_status = UNTESTED
    /\ tested_against = [m \in Mutants |-> NoHash]
    /\ baseline_run = NoRun
    /\ setup = NoSetup
    /\ walker = NoWalker
    /\ db = NoDb
    /\ popen = NoPopen
    /\ pre_mutation = FALSE
    /\ post_mutation = FALSE
    /\ linedb = NoLines
    /\ \E rows \in [Mutants -> CachedRows], mutations_by_file \in SUBSET Mutants :
         registry = [NoRegistry EXCEPT !.at = "idle", !.rows = rows, !.initial = rows,
                                       !.mutations_by_file = mutations_by_file]

NextRegister == register_mutants_call

SpecRegister == InitRegister /\ [][NextRegister]_vars

(* --------------- muckup/mutators.py: Mutator, the walker --------------- *)

\* Source text is a sequence of tokens and single blanks; a leaf of the parse
\* tree carries its prefix (blanks, comments, line breaks before the token)
\* and its value, an inner node its children (parso.tree.Leaf / BaseNode).
Leaf(type, line, prefix, value) ==
    [type |-> type, line |-> line, prefix |-> prefix, value |-> value,
     children |-> <<>>, leaf |-> TRUE]

Node(type, line, children) ==
    [type |-> type, line |-> line, prefix |-> <<>>, value |-> "",
     children |-> children, leaf |-> FALSE]

\* Name(value=..., start_pos=...): a leaf made by a rule, without prefix
Name(value, line) == Leaf("name", line, <<>>, value)

\* Keyword(value=..., start_pos=...)
Keyword(value, line) == Leaf("keyword", line, <<>>, value)

\* hasattr(node, 'children')
has_children(node) == ~node.leaf

\* the characters of a value the rules write, token by token
chars(value) ==
    CASE value = ""        -> <<>>
      [] value = " None"   -> <<" ", "None">>
      [] value = " 7"      -> <<" ", "7">>
      [] value = " and"    -> <<" ", "and">>
      [] value = " or"     -> <<" ", "or">>
      [] value = "is not"  -> <<"is", " ", "not">>
      [] value = "not in"  -> <<"not", " ", "in">>
      [] OTHER             -> <<value>>

RECURSIVE get_code(_)
\* NodeOrLeaf.get_code(): the text regenerated from the tree
get_code(node) ==
    IF node.leaf
    THEN node.prefix \o chars(node.value)
    ELSE LET RECURSIVE cat(_)
             cat(k) == IF k > Len(node.children) THEN <<>>
                       ELSE get_code(node.children[k]) \o cat(k + 1)
         IN cat(1)

RECURSIVE NodeAt(_, _)
\* the node a path of child positions leads to, from the module node
NodeAt(tree, path) ==
    IF path = <<>> THEN tree
    ELSE NodeAt(tree.children[Head(path)], Tail(path))

RECURSIVE setattr(_, _, _, _)
\* setattr(node, node_key, new) on the node the path leads to
setattr(tree, path, node_key, new) ==
    IF path = <<>>
    THEN IF node_key = "value" THEN [tree EXCEPT !.value = new]
                               ELSE [tree EXCEPT !.children = new]
    ELSE [tree EXCEPT !.children[Head(path)] =
              setattr(tree.children[Head(path)], Tail(path), node_key, new)]

RECURSIVE replace_not_not(_)
\* str.replace(' not not ', ' '): left to right, matches do not overlap
replace_not_not(text) ==
    IF text = <<>> THEN <<>>
    ELSE IF Len(text) >= 5 /\ SubSeq(text, 1, 5) = <<" ", "not", " ", "not", " ">>
         THEN <<" ">> \o replace_not_not(SubSeq(text, 6, Len(text)))
         ELSE <<Head(text)>> \o replace_not_not(Tail(text))

RECURSIVE split(_)
\* source.split('\n')
split(text) ==
    IF \A k \in 1..Len(text) : text[k] # NL THEN <<text>>
    ELSE LET k == CHOOSE j \in 1..Len(text) :
                      text[j] = NL /\ \A i \in 1..(j - 1) : text[i] # NL
         IN <<SubSeq(text, 1, k - 1)>> \o split(SubSeq(text, k + 1, Len(text)))

\* a comment with '# pragma:' whose remainder holds 'no mutate'
NoMutateComments == {"# pragma: no mutate", "# pragma: no cover, no mutate"}

\* Mutator.pragma_no_mutate_lines: the 0-based numbers of the lines with one
pragma_no_mutate_lines(text) ==
    {n \in 0..(Len(split(text)) - 1) :
        \E k \in 1..Len(split(text)[n + 1]) :
            split(text)[n + 1][k] \in NoMutateComments}

\* the rule table, as far as the sources below have nodes for it: the key a
\* rule reads and writes, and the rule; "none" is dict.get's None
mutations_by_type(type) ==
    CASE type = "operator"  -> [node_key |-> "value",    rule |-> "operator_mutation"]
      [] type = "keyword"   -> [node_key |-> "value",    rule |-> "keyword_mutation"]
      [] type = "number"    -> [node_key |-> "value",    rule |-> "number_mutation"]
      [] type = "name"      -> [node_key |-> "value",    rule |-> "name_mutation"]
      [] type = "string"    -> [node_key |-> "value",    rule |-> "string_mutation"]
      [] type = "argument"  -> [node_key |-> "children", rule |-> "argument_mutation"]
      [] type = "or_test"   -> [node_key |-> "children", rule |-> "and_or_test_mutation"]
      [] type = "and_test"  -> [node_key |-> "children", rule |-> "and_or_test_mutation"]
      [] type = "expr_stmt" -> [node_key |-> "children", rule |-> "expression_mutation"]
      [] type = "annassign" -> [node_key |-> "children", rule |-> "expression_mutation"]
      [] type = "trailer"   -> [node_key |-> "children", rule |-> "trailer_mutation"]
      [] type = "arglist"   -> [node_key |-> "children", rule |-> "arglist_mutation"]
      [] OTHER              -> [node_key |-> "none",     rule |-> "none"]

\* number_mutation on a decimal integer literal without suffix:
\* repr(int(value, base=10) + 1)
number_mutation(value) == str(int(value) + 1)

\* string_mutation: the prefix ends at the first quote and value becomes
\* the literal without its prefix; a triple-quoted one is returned as it is
\* at that point, any other gets XX inside its quotes
string_mutation(value) ==
    LET find(sub) == IF \E k \in 1..Len(value) : SubSeq(value, k, k) = sub
                     THEN (CHOOSE k \in 1..Len(value) :
                              /\ SubSeq(value, k, k) = sub
                              /\ \A j \in 1..(k - 1) : SubSeq(value, j, j) # sub) - 1
                     ELSE -1
        found  == {x \in {find("\""), find("'")} : x # -1}
        n      == CHOOSE x \in found : \A y \in found : x <= y
        prefix == SubSeq(value, 1, n)
        rest   == SubSeq(value, n + 1, Len(value))
    IN IF Len(rest) >= 3 /\ SubSeq(rest, 1, 3) \in {"\"\"\"", "'''"}
       THEN rest
       ELSE prefix \o SubSeq(rest, 1, 1) \o "XX" \o SubSeq(rest, 2, Len(rest) - 1)
                   \o "XX" \o SubSeq(rest, Len(rest), Len(rest))

\* keyword_mutation; stack[-2] is the parent of the keyword
keyword_mutation(value, stack) ==
    IF Len(stack) > 2 /\ stack[Len(stack) - 1].type = "comp_op" /\ value \in {"in", "is"}
    THEN value
    ELSE IF Len(stack) > 1 /\ stack[Len(stack) - 1].type = "for_stmt"
    THEN value
    ELSE CASE value = "not"      -> ""
           [] value = "is"       -> "is not"
           [] value = "in"       -> "not in"
           [] value = "break"    -> "continue"
           [] value = "continue" -> "break"
           [] value = "True"     -> "False"
           [] value = "False"    -> "True"
           [] OTHER              -> value

\* operator_mutation, for the operators of the sources below
operator_mutation(value, stack) ==
    IF stack[Len(stack) - 1].type \in {"import_from", "param"}
    THEN value
    ELSE CASE value = "+"  -> "-"
           [] value = "-"  -> "+"
           [] value = "*"  -> "/"
           [] value = "/"  -> "*"
           [] value = "<"  -> "<="
           [] value = "==" -> "!="
           [] OTHER        -> value

\* the rule of 'name'
name_mutation(value) ==
    CASE value = "True"     -> "False"
      [] value = "False"    -> "True"
      [] value = "deepcopy" -> "copy"
      [] OTHER              -> value

\* argument_mutation: a keyword argument of a call of dict gets XX
argument_mutation(children, stack) ==
    LET power == IF Len(stack) >= 3 /\ stack[Len(stack) - 2].type \in {"power", "atom_expr"}
                 THEN Len(stack) - 2
                 ELSE IF Len(stack) >= 4 /\ stack[Len(stack) - 3].type \in {"power", "atom_expr"}
                 THEN Len(stack) - 3
                 ELSE 0
    IN IF power = 0 THEN children
       ELSE IF stack[power].children[1].type = "name"
               /\ stack[power].children[1].value = "dict"
               /\ children[1].type = "name"
            THEN [children EXCEPT ![1] = [children[1] EXCEPT !.value = @ \o "XX"]]
            ELSE children

\* and_or_test_mutation: the operator of the test is swapped
and_or_test_mutation(children, node) ==
    [children EXCEPT ![2] =
        Keyword(IF children[2].value = "and" THEN " or" ELSE " and", node.line)]

\* handle_assignment inside expression_mutation: works on a copy
handle_assignment(children) ==
    [children EXCEPT ![3] =
        Name(IF children[3].leaf /\ children[3].value = "None" THEN " 7" ELSE " None",
             children[3].line)]

\* expression_mutation writes children[1:] of the list it was given when the
\* list starts with ':' and holds an '='
writes_in_place(children) ==
    /\ children[1].type = "operator" /\ children[1].value = ":"
    /\ Len(children) > 2 /\ children[3].value = "="

\* expression_mutation: the list it returns
expression_mutation(children) ==
    IF children[1].type = "operator" /\ children[1].value = ":"
    THEN IF Len(children) > 2 /\ children[3].value = "="
         THEN <<children[1]>> \o handle_assignment(Tail(children))
         ELSE children
    ELSE IF children[2].type = "operator" /\ children[2].value = "="
         THEN handle_assignment(children)
         ELSE children

\* trailer_mutation: foo[bar] becomes foo[None]; the children are those of
\* a trailer, so children[0].parent.type == 'trailer' holds
trailer_mutation(children) ==
    IF /\ Len(children) = 3
       /\ children[1].type = "operator" /\ children[1].value = "["
       /\ children[3].type = "operator" /\ children[3].value = "]"
       /\ children[2].type = "name" /\ children[2].value # "None"
    THEN <<children[1], Name("None", children[1].line), children[3]>>
    ELSE children

\* arglist_mutation: the first argument becomes None
arglist_mutation(children) ==
    IF Len(children) > 3 /\ children[1].type = "name" /\ children[1].value # "None"
    THEN <<Name("None", children[1].line)>> \o Tail(children)
    ELSE children

\* mutation_operation(context=self, node=node, value=..., children=...)
mutation_operation(rule, node, stack) ==
    CASE rule = "operator_mutation"    -> operator_mutation(node.value, stack)
      [] rule = "keyword_mutation"     -> keyword_mutation(node.value, stack)
      [] rule = "number_mutation"      -> number_mutation(node.value)
      [] rule = "name_mutation"        -> name_mutation(node.value)
      [] rule = "string_mutation"      -> string_mutation(node.value)
      [] rule = "argument_mutation"    -> argument_mutation(node.children, stack)
      [] rule = "and_or_test_mutation" -> and_or_test_mutation(node.children, node)
      [] rule = "expression_mutation"  -> expression_mutation(node.children)
      [] rule = "trailer_mutation"     -> trailer_mutation(node.children)
      [] rule = "arglist_mutation"     -> arglist_mutation(node.children)

\* the trailing comment of line n (0-based) when the line is to carry one
comment(pragma, n) ==
    IF n \in pragma THEN <<" ", " ", "# pragma: no mutate">> ELSE <<>>

\* the same with a second pragma in the comment
comment_no_cover(pragma, n) ==
    IF n \in pragma THEN <<" ", " ", "# pragma: no cover, no mutate">> ELSE <<>>

\* the source files the walker is run on
Programs == {"annotated", "wrapped", "dict", "negations", "comparisons",
             "dunder", "annotated_def", "defs", "strings"}

\* the lines of a program that may carry a pragma comment
PragmaSites(program) ==
    CASE program = "annotated"     -> {0, 1}
      [] program = "wrapped"       -> {0, 1}
      [] program = "dict"          -> {0}
      [] program = "negations"     -> {1}
      [] program = "comparisons"   -> {0, 1}
      [] program = "dunder"        -> {1}
      [] program = "annotated_def" -> {0}
      [] program = "defs"          -> {1}
      [] program = "strings"       -> {}

\* a: int = 1
\* b = 2
parse_annotated(pragma) ==
    Node("file_input", 1, <<
        Node("simple_stmt", 1, <<
            Node("expr_stmt", 1, <<
                Leaf("name", 1, <<>>, "a"),
                Node("annassign", 1, <<
                    Leaf("operator", 1, <<>>, ":"),
                    Leaf("name", 1, <<" ">>, "int"),
                    Leaf("operator", 1, <<" ">>, "="),
                    Leaf("number", 1, <<" ">>, "1")>>)>>),
            Leaf("newline", 1, comment(pragma, 0), NL)>>),
        Node("simple_stmt", 2, <<
            Node("expr_stmt", 2, <<
                Leaf("name", 2, <<>>, "b"),
                Leaf("operator", 2, <<" ">>, "="),
                Leaf("number", 2, <<" ">>, "2")>>),
            Leaf("newline", 2, comment(pragma, 1), NL)>>),
        Leaf("endmarker", 3, <<>>, "")>>)

\* x = (a
\*  or 1)
parse_wrapped(pragma) ==
    Node("file_input", 1, <<
        Node("simple_stmt", 1, <<
            Node("expr_stmt", 1, <<
                Leaf("name", 1, <<>>, "x"),
                Leaf("operator", 1, <<" ">>, "="),
                Node("atom", 1, <<
                    Leaf("operator", 1, <<" ">>, "("),
                    Node("or_test", 1, <<
                        Leaf("name", 1, <<>>, "a"),
                        Leaf("keyword", 2, comment(pragma, 0) \o <<NL, " ">>, "or"),
                        Leaf("number", 2, <<" ">>, "1")>>),
                    Leaf("operator", 2, <<>>, ")")>>)>>),
            Leaf("newline", 2, comment_no_cover(pragma, 1), NL)>>),
        Leaf("endmarker", 3, <<>>, "")>>)

\* dict(a=b, c=d)        -- no line break at the end of the file
parse_dict(pragma) ==
    Node("file_input", 1, <<
        Node("atom_expr", 1, <<
            Leaf("name", 1, <<>>, "dict"),
            Node("trailer", 1, <<
                Leaf("operator", 1, <<>>, "("),
                Node("arglist", 1, <<
                    Node("argument", 1, <<
                        Leaf("name", 1, <<>>, "a"),
                        Leaf("operator", 1, <<>>, "="),
                        Leaf("name", 1, <<>>, "b")>>),
                    Leaf("operator", 1, <<>>, ","),
                    Node("argument", 1, <<
                        Leaf("name", 1, <<" ">>, "c"),
                        Leaf("operator", 1, <<>>, "="),
                        Leaf("name", 1, <<>>, "d")>>)>>),
                Leaf("operator", 1, <<>>, ")")>>)>>),
        Leaf("endmarker", 1, comment(pragma, 0), "")>>)

\* a = not not b
\* c = 1
parse_negations(pragma) ==
    Node("file_input", 1, <<
        Node("simple_stmt", 1, <<
            Node("expr_stmt", 1, <<
                Leaf("name", 1, <<>>, "a"),
                Leaf("operator", 1, <<" ">>, "="),
                Node("not_test", 1, <<
                    Leaf("keyword", 1, <<" ">>, "not"),
                    Node("not_test", 1, <<
                        Leaf("keyword", 1, <<" ">>, "not"),
                        Leaf("name", 1, <<" ">>, "b")>>)>>)>>),
            Leaf("newline", 1, <<>>, NL)>>),
        Node("simple_stmt", 2, <<
            Node("expr_stmt", 2, <<
                Leaf("name", 2, <<>>, "c"),
                Leaf("operator", 2, <<" ">>, "="),
                Leaf("number", 2, <<" ">>, "1")>>),
            Leaf("newline", 2, comment(pragma, 1), NL)>>),
        Leaf("endmarker", 3, <<>>, "")>>)

\* a is not b
\* c in d
parse_comparisons(pragma) ==
    Node("file_input", 1, <<
        Node("simple_stmt", 1, <<
            Node("comparison", 1, <<
                Leaf("name", 1, <<>>, "a"),
                Node("comp_op", 1, <<
                    Leaf("keyword", 1, <<" ">>, "is"),
                    Leaf("keyword", 1, <<" ">>, "not")>>),
                Leaf("name", 1, <<" ">>, "b")>>),
            Leaf("newline", 1, comment(pragma, 0), NL)>>),
        Node("simple_stmt", 2, <<
            Node("comparison", 2, <<
                Leaf("name", 2, <<>>, "c"),
                Leaf("keyword", 2, <<" ">>, "in"),
                Leaf("name", 2, <<" ">>, "d")>>),
            Leaf("newline", 2, comment(pragma, 1), NL)>>),
        Leaf("endmarker", 3, <<>>, "")>>)

\* __version__ = 1
\* b = 1 + 2
parse_dunder(pragma) ==
    Node("file_input", 1, <<
        Node("simple_stmt", 1, <<
            Node("expr_stmt", 1, <<
                Leaf("name", 1, <<>>, "__version__"),
                Leaf("operator", 1, <<" ">>, "="),
                Leaf("number", 1, <<" ">>, "1")>>),
            Leaf("newline", 1, <<>>, NL)>>),
        Node("simple_stmt", 2, <<
            Node("expr_stmt", 2, <<
                Leaf("name", 2, <<>>, "b"),
                Leaf("operator", 2, <<" ">>, "="),
                Node("arith_expr", 2, <<
                    Leaf("number", 2, <<" ">>, "1"),
                    Leaf("operator", 2, <<" ">>, "+"),
                    Leaf("number", 2, <<" ">>, "2")>>)>>),
            Leaf("newline", 2, comment(pragma, 1), NL)>>),
        Leaf("endmarker", 3, <<>>, "")>>)

\* def f(a: int) -> int: return 1
parse_annotated_def(pragma) ==
    Node("file_input", 1, <<
        Node("funcdef", 1, <<
            Leaf("keyword", 1, <<>>, "def"),
            Leaf("name", 1, <<" ">>, "f"),
            Node("parameters", 1, <<
                Leaf("operator", 1, <<>>, "("),
                Node("param", 1, <<
                    Node("tfpdef", 1, <<
                        Leaf("name", 1, <<>>, "a"),
                        Leaf("operator", 1, <<>>, ":"),
                        Leaf("name", 1, <<" ">>, "int")>>)>>),
                Leaf("operator", 1, <<>>, ")")>>),
            Leaf("operator", 1, <<" ">>, "->"),
            Leaf("name", 1, <<" ">>, "int"),
            Leaf("operator", 1, <<>>, ":"),
            Node("simple_stmt", 1, <<
                Node("return_stmt", 1, <<
                    Leaf("keyword", 1, <<" ">>, "return"),
                    Leaf("number", 1, <<" ">>, "1")>>),
                Leaf("newline", 1, comment(pragma, 0), NL)>>)>>),
        Leaf("endmarker", 2, <<>>, "")>>)

\* def f(a: 'T'): return 1
\* def f(a: 'T') -> 'T': return 1
parse_defs(pragma) ==
    Node("file_input", 1, <<
        Node("funcdef", 1, <<
            Leaf("keyword", 1, <<>>, "def"),
            Leaf("name", 1, <<" ">>, "f"),
            Node("parameters", 1, <<
                Leaf("operator", 1, <<>>, "("),
                Node("param", 1, <<
                    Node("tfpdef", 1, <<
                        Leaf("name", 1, <<>>, "a"),
                        Leaf("operator", 1, <<>>, ":"),
                        Leaf("string", 1, <<" ">>, "'T'")>>)>>),
                Leaf("operator", 1, <<>>, ")")>>),
            Leaf("operator", 1, <<>>, ":"),
            Node("simple_stmt", 1, <<
                Node("return_stmt", 1, <<
                    Leaf("keyword", 1, <<" ">>, "return"),
                    Leaf("number", 1, <<" ">>, "1")>>),
                Leaf("newline", 1, <<>>, NL)>>)>>),
        Node("funcdef", 2, <<
            Leaf("keyword", 2, <<>>, "def"),
            Leaf("name", 2, <<" ">>, "f"),
            Node("parameters", 2, <<
                Leaf("operator", 2, <<>>, "("),
                Node("param", 2, <<
                    Node("tfpdef", 2, <<
                        Leaf("name", 2, <<>>, "a"),
                        Leaf("operator", 2, <<>>, ":"),
                        Leaf("string", 2, <<" ">>, "'T'")>>)>>),
                Leaf("operator", 2, <<>>, ")")>>),
            Leaf("operator", 2, <<" ">>, "->"),
            Leaf("string", 2, <<" ">>, "'T'"),
            Leaf("operator", 2, <<>>, ":"),
            Node("simple_stmt", 2, <<
                Node("return_stmt", 2, <<
                    Leaf("keyword", 2, <<" ">>, "return"),
                    Leaf("number", 2, <<" ">>, "1")>>),
                Leaf("newline", 2, comment(pragma, 1), NL)>>)>>),
        Leaf("endmarker", 3, <<>>, "")>>)

\* s = 'foo'
\* t = u"a"
\* '''doc'''
\* r"""raw"""
parse_strings(pragma) ==
    Node("file_input", 1, <<
        Node("simple_stmt", 1, <<
            Node("expr_stmt", 1, <<
                Leaf("name", 1, <<>>, "s"),
                Leaf("operator", 1, <<" ">>, "="),
                Leaf("string", 1, <<" ">>, "'foo'")>>),
            Leaf("newline", 1, <<>>, NL)>>),
        Node("simple_stmt", 2, <<
            Node("expr_stmt", 2, <<
                Leaf("name", 2, <<>>, "t"),
                Leaf("operator", 2, <<" ">>, "="),
                Leaf("string", 2, <<" ">>, "u\"a\"")>>),
            Leaf("newline", 2, <<>>, NL)>>),
        Node("simple_stmt", 3, <<
            Leaf("string", 3, <<>>, "'''doc'''"),
            Leaf("newline", 3, <<>>, NL)>>),
        Node("simple_stmt", 4, <<
            Leaf("string", 4, <<>>, "r\"\"\"raw\"\"\""),
            Leaf("newline", 4, <<>>, NL)>>),
        Leaf("endmarker", 5, <<>>, "")>>)

\* parse(self.source, error_recovery=False): the module node of a program
parse(program, pragma) ==
    CASE program = "annotated"     -> parse_annotated(pragma)
      [] program = "wrapped"       -> parse_wrapped(pragma)
      [] program = "dict"          -> parse_dict(pragma)
      [] program = "negations"     -> parse_negations(pragma)
      [] program = "comparisons"   -> parse_comparisons(pragma)
      [] program = "dunder"        -> parse_dunder(pragma)
      [] program = "annotated_def" -> parse_annotated_def(pragma)
      [] program = "defs"          -> parse_defs(pragma)
      [] program = "strings"       -> parse_strings(pragma)

\* Mutator.source: the text of the file
Mutator_source == get_code(parse(walker.program, walker.pragma))

\* Mutator.source_by_line_number
source_by_line_number == split(Mutator_source)

DUNDER_WHITELIST == {"all", "version", "title", "package_name", "author",
                     "description", "email", "license", "copyright"}

RECURSIVE strip(_)
\* str.strip(), for a line of tokens and blanks
strip(line) ==
    IF line # <<>> /\ Head(line) = " " THEN strip(Tail(line))
    ELSE IF line # <<>> /\ line[Len(line)] = " " THEN strip(SubSeq(line, 1, Len(line) - 1))
    ELSE line

\* Mutator.exclude_line(); the exclusion policy excludes the lines that the
\* coverage or patch data do not list
exclude_line ==
    LET current_line == source_by_line_number[walker.current_line_index + 1]
    IN \/ /\ current_line # <<>>
          /\ \E word \in DUNDER_WHITELIST :
                /\ current_line[1] = "__" \o word \o "__"
                /\ strip(Tail(current_line)) # <<>>
                /\ strip(Tail(current_line))[1] = "="
       \/ strip(current_line) = <<"__import__('pkg_resources').declare_namespace(__name__)">>
       \/ walker.current_line_index \in pragma_no_mutate_lines(Mutator_source)
       \/ walker.current_line_index \in walker.exclude

\* the path without its last position, and the path of the next sibling
Front(path) == SubSeq(path, 1, Len(path) - 1)
Sibling(path) == [path EXCEPT ![Len(path)] = @ + 1]

\* Mutator.stack while the node at the cursor is being mutated: the nodes
\* from the outermost statement down to it
Mutator_stack == [k \in 1..Len(walker.cursor) |->
                     NodeAt(walker.tree, SubSeq(walker.cursor, 1, k))]

\* a loop over the children that ends only past the last child
ListEnds_past_last ==
    walker.cursor[Len(walker.cursor)]
        > Len(NodeAt(walker.tree, Front(walker.cursor)).children)

\* the cursor lies past the last child, or on a '->'
ListEnds ==
    LET owner == NodeAt(walker.tree, Front(walker.cursor))
        i     == walker.cursor[Len(walker.cursor)]
    IN IF i > Len(owner.children) THEN TRUE
       ELSE /\ owner.children[i].type = "operator"
            /\ owner.children[i].value = "->"

\* the Mutant the generator hands out, with the line and the index of the
\* walker at that moment and the node the rule was applied to
YieldedMutant(tree, node) ==
    [source         |-> Mutator_source,
     mutated_source |-> replace_not_not(get_code(tree)),
     regenerated    |-> get_code(tree),
     line           |-> walker.current_line_index,
     index          |-> walker.index,
     node           |-> walker.cursor,
     node_line      |-> node.line - 1,
     pragma_line    |-> (node.line - 1) \in pragma_no_mutate_lines(Mutator_source)]

\* yield_mutants(): the source is parsed and the module's children are walked
Mutator_yield_mutants ==
    /\ walker.at = "new"
    /\ walker' = [walker EXCEPT !.at = "child",
                                !.tree = parse(walker.program, walker.pragma),
                                !.cursor = <<1>>]
    /\ UNCHANGED <<mainVars, popen, linedb, db, setup, registry>>

\* mutate_list_of_nodes: the loop over the children ends, or returns at a
\* '->'; control is back in mutate_node of the owner, or the generator ends
mutate_list_of_nodes_end ==
    /\ walker.at = "child"
    /\ ListEnds
    /\ walker' = IF Len(walker.cursor) = 1
                 THEN [walker EXCEPT !.at = "done", !.cursor = <<>>]
                 ELSE [walker EXCEPT !.at = "rules", !.cursor = Front(walker.cursor)]
    /\ UNCHANGED <<mainVars, popen, linedb, db, setup, registry>>

\* mutate_node, lines 403-414: a tfpdef is passed over; any other node is
\* pushed, the line and the index follow its starting line, and its
\* children are walked first
mutate_node_enter ==
    /\ walker.at = "child"
    /\ ~ListEnds
    /\ LET node == NodeAt(walker.tree, walker.cursor)
           moved == node.line - 1 # walker.current_line_index
       IN walker' =
            IF node.type = "tfpdef"
            THEN [walker EXCEPT !.cursor = Sibling(walker.cursor)]
            ELSE [walker EXCEPT
                    !.current_line_index = node.line - 1,
                    !.index = IF moved THEN 0 ELSE @,
                    !.considered = IF moved THEN 0 ELSE @,
                    !.at = IF has_children(node) THEN "child" ELSE "rules",
                    !.cursor = IF has_children(node) THEN @ \o <<1>> ELSE @]
    /\ UNCHANGED <<mainVars, popen, linedb, db, setup, registry>>

\* a walker that hands out every candidate, changed or not
value_changed_or_not(new, old) == TRUE

\* line 431, `if new != old`
value_changed(new, old) == new # old

\* a walker whose node hands out its own mutant ahead of the mutants of the
\* nodes below it
mutate_node_rules_first ==
    /\ walker.at = "rules"
    /\ LET node      == NodeAt(walker.tree, walker.cursor)
           mutations == mutations_by_type(node.type)
           old       == IF mutations.node_key = "value" THEN node.value ELSE node.children
           new       == mutation_operation(mutations.rule, node, Mutator_stack)
           in_place  == /\ mutations.rule = "expression_mutation"
                        /\ writes_in_place(node.children)
           written   == setattr(walker.tree, walker.cursor, mutations.node_key, new)
           leave     == [walker EXCEPT !.at = "child", !.cursor = Sibling(walker.cursor)]
           below     == {k \in 1..Len(walker.out) :
                            /\ Len(walker.out[k].node) > Len(walker.cursor)
                            /\ SubSeq(walker.out[k].node, 1, Len(walker.cursor)) = walker.cursor}
           at        == IF below = {} THEN Len(walker.out) + 1
                        ELSE CHOOSE k \in below : \A j \in below : k <= j
       IN walker' =
            IF mutations.rule = "none"
            THEN leave
            ELSE IF exclude_line
            THEN [leave EXCEPT !.considered = @ + 1]
            ELSE IF in_place
            THEN [leave EXCEPT !.considered = @ + 1, !.tree = written]
            ELSE IF value_changed(new, old)
            THEN [walker EXCEPT !.considered = @ + 1,
                                !.at = "yielded",
                                !.tree = written,
                                !.old = old,
                                !.out = SubSeq(@, 1, at - 1)
                                        \o <<YieldedMutant(written, node)>>
                                        \o SubSeq(@, at, Len(@))]
            ELSE [leave EXCEPT !.considered = @ + 1]
    /\ UNCHANGED <<mainVars, popen, linedb, db, setup, registry>>

\* mutate_node, lines 416-437: the rule of the node's type, unless the line
\* is excluded; a changed value is set and the mutant yielded
mutate_node_rules ==
    /\ walker.at = "rules"
    /\ LET node      == NodeAt(walker.tree, walker.cursor)
           mutations == mutations_by_type(node.type)
           old       == IF mutations.node_key = "value" THEN node.value ELSE node.children
           new       == mutation_operation(mutations.rule, node, Mutator_stack)
           in_place  == /\ mutations.rule = "expression_mutation"
                        /\ writes_in_place(node.children)
           written   == setattr(walker.tree, walker.cursor, mutations.node_key, new)
           leave     == [walker EXCEPT !.at = "child", !.cursor = Sibling(walker.cursor)]
       IN walker' =
            IF mutations.rule = "none"
            THEN leave
            ELSE IF exclude_line
            THEN [leave EXCEPT !.considered = @ + 1]
            ELSE IF in_place
            THEN [leave EXCEPT !.considered = @ + 1, !.tree = written]
            ELSE IF value_changed(new, old)
            THEN [walker EXCEPT !.considered = @ + 1,
                                !.at = "yielded",
                                !.tree = written,
                                !.old = old,
                                !.out = Append(@, YieldedMutant(written, node))]
            ELSE [leave EXCEPT !.considered = @ + 1]
    /\ UNCHANGED <<mainVars, popen, linedb, db, setup, registry>>

\* a walker that does not count the mutant it has yielded
mutate_node_resume_uncounted ==
    /\ walker.at = "yielded"
    /\ walker' = [walker EXCEPT
                    !.tree = setattr(walker.tree, walker.cursor,
                                     mutations_by_type(NodeAt(walker.tree, walker.cursor).type).node_key,
                                     walker.old),
                    !.old = <<>>,
                    !.at = "child",
                    !.cursor = Sibling(walker.cursor)]
    /\ UNCHANGED <<mainVars, popen, linedb, db, setup, registry>>

\* mutate_node, lines 438-441, when the consumer asks for the next mutant:
\* the old value is set back, the index advances, the node is popped
mutate_node_resume ==
    /\ walker.at = "yielded"
    /\ walker' = [walker EXCEPT
                    !.tree = setattr(walker.tree, walker.cursor,
                                     mutations_by_type(NodeAt(walker.tree, walker.cursor).type).node_key,
                                     walker.old),
                    !.old = <<>>,
                    !.index = @ + 1,
                    !.at = "child",
                    !.cursor = Sibling(walker.cursor)]
    /\ UNCHANGED <<mainVars, popen, linedb, db, setup, registry>>

\* a second pass that calls yield_mutants() again on the Mutator of the first
Mutator_again_reused ==
    /\ walker.at = "done"
    /\ walker.pass = 1
    /\ walker' = [walker EXCEPT !.at = "new", !.pass = 2, !.first = walker.out,
                                !.out = <<>>, !.tree = <<>>, !.cursor = <<>>]
    /\ UNCHANGED <<mainVars, popen, linedb, db, setup, registry>>

\* the same file is generated from once more: Mutator(source=..., filename=...,
\* exclude=...) anew, as muckup's main does for every file
Mutator_again ==
    /\ walker.at = "done"
    /\ walker.pass = 1
    /\ walker' = [walker EXCEPT !.at = "new", !.pass = 2, !.first = walker.out,
                                !.out = <<>>, !.tree = <<>>, !.cursor = <<>>,
                                !.index = 0, !.current_line_index = 0,
                                !.considered = 0]
    /\ UNCHANGED <<mainVars, popen, linedb, db, setup, registry>>

\* a Mutator constructed on one of the programs, with pragma comments on
\* some of its lines and an exclusion policy that excludes some lines
InitWalker ==
    /\ prog = "walker"
    /\ pc = "yield_mutants"
    /\ cur = 1
    /\ runs = 1
    /\ disk = [f \in Files |-> Orig(f)]
    /\ bak = [f \in Files |-> Absent]
    /\ exc = "none"
    /\ using_testmon = FALSE
    /\ baseline_test_time = 0
    /\ last = NoRun
    /\ code = -1
    /\ status = [m \in Mutants |-> UNTESTED]
    /\ applied = [m \in Mutants |-> FALSE]
    /\ source = [m \in Mutants |-> Orig(FileOf(m))]
    /\ pre = Empty
    /\ trail = <<>>
    /\ cache = [m \in Mutants |-> NoRow]
    /\ cached_time = 0
    /\ config = BlankConfig
    /\ cached_status = UNTESTED
    /\ tested_against = [m \in Mutants |-> NoHash]
    /\ baseline_run = NoRun
    /\ registry = NoRegistry
    /\ setup = NoSetup
    /\ popen = NoPopen
    /\ pre_mutation = FALSE
    /\ post_mutation = FALSE
    /\ linedb = NoLines
    /\ db = NoDb
    /\ \E program \in Programs :
       \E pragma \in SUBSET PragmaSites(program) :
       \E exclude \in SUBSET (0..(Len(split(get_code(parse(program, pragma)))) - 1)) :
            walker = [NoWalker EXCEPT !.at = "new", !.pass = 1, !.program = program,
                                      !.pragma = pragma, !.exclude = exclude]

NextWalker ==
    \/ Mutator_yield_mutants
    \/ mutate_list_of_nodes_end
    \/ mutate_node_enter
    \/ mutate_node_rules
    \/ mutate_node_resume
    \/ Mutator_again

SpecWalker == InitWalker /\ [][NextWalker]_vars

(* ------- main / run_main: the exclusion filter and its backing file ---- *)

\* muckup main, line 149: `for i in range(10)`, one second of sleep each
CoverageWaitSeconds == 10

\* the runner's coverage plugin writes .coverage, possibly some time after
\* the baseline run has ended (muckup main, lines 136-148)
coverage_written ==
    /\ setup.runner_writes_coverage
    /\ setup.where \in {"use_coverage", "filter"}
    /\ ~setup.coverage_file
    /\ setup' = [setup EXCEPT !.coverage_file = TRUE]
    /\ UNCHANGED <<mainVars, popen, linedb, db, walker, registry>>

\* muckup main, line 140, and mutmut run_main, lines 396-400: the baseline
\* run of the tests; a failing baseline ends the run
setup_time_test_suite ==
    /\ setup.where = "time_test_suite"
    /\ \E passed \in BOOLEAN :
         setup' = IF passed
                  THEN [setup EXCEPT !.baseline = "passed", !.where = "use_coverage"]
                  ELSE [setup EXCEPT !.baseline = "failed", !.where = "fatal",
                                     !.exc = "RuntimeError"]
    /\ UNCHANGED <<mainVars, popen, linedb, db, walker, registry>>

\* a main that goes on to generate mutants without looking for .coverage
main_use_coverage_unchecked ==
    /\ setup.entry = "muckup"
    /\ setup.where = "use_coverage"
    /\ setup' = [setup EXCEPT !.where = "generate"]
    /\ UNCHANGED <<mainVars, popen, linedb, db, walker, registry>>

\* muckup main, lines 146-159: with --use-coverage, .coverage is looked for
\* once a second, ten times; FileNotFoundError when it has not appeared
main_use_coverage ==
    /\ setup.entry = "muckup"
    /\ setup.where = "use_coverage"
    /\ setup' =
         IF ~setup.use_coverage THEN [setup EXCEPT !.where = "generate"]
         ELSE IF setup.waited = CoverageWaitSeconds
         THEN [setup EXCEPT !.where = "fatal", !.exc = "FileNotFoundError"]
         ELSE IF setup.coverage_file
         THEN [setup EXCEPT !.where = "generate"]
         ELSE [setup EXCEPT !.waited = @ + 1]
    /\ UNCHANGED <<mainVars, popen, linedb, db, walker, registry>>

\* mutmut run_main, lines 406-408: --use-coverage without a .coverage file
run_main_use_coverage ==
    /\ setup.entry = "mutmut"
    /\ setup.where = "use_coverage"
    /\ setup' =
         IF setup.use_coverage /\ ~setup.coverage_file
         THEN [setup EXCEPT !.where = "fatal", !.exc = "FileNotFoundError"]
         ELSE [setup EXCEPT !.where = "filter"]
    /\ UNCHANGED <<mainVars, popen, linedb, db, walker, registry>>

\* mutmut run_main, lines 411-418: read_coverage_data(), or
\* read_patch_data(use_patch_file), whose open() raises FileNotFoundError when
\* the patch file does not exist
run_main_read_filter ==
    /\ setup.entry = "mutmut"
    /\ setup.where = "filter"
    /\ setup' =
         IF ~setup.use_coverage /\ setup.use_patch_file /\ ~setup.patch_file
         THEN [setup EXCEPT !.where = "fatal", !.exc = "FileNotFoundError"]
         ELSE [setup EXCEPT !.where = "generate"]
    /\ UNCHANGED <<mainVars, popen, linedb, db, walker, registry>>

\* muckup main, lines 185-195, and mutmut run_main, lines 440-452: the
\* mutants of the files are generated
setup_generate ==
    /\ setup.where = "generate"
    /\ \E n \in 0..NumMutants :
         setup' = [setup EXCEPT !.generated = n, !.where = "run"]
    /\ UNCHANGED <<mainVars, popen, linedb, db, walker, registry>>

\* run_mutation_tests: the next mutant is applied and tested, or the run ends
setup_run_mutation_tests ==
    /\ setup.where = "run"
    /\ setup' = IF setup.tested < setup.generated
                THEN [setup EXCEPT !.tested = @ + 1]
                ELSE [setup EXCEPT !.where = "exit"]
    /\ UNCHANGED <<mainVars, popen, linedb, db, walker, registry>>

\* a run of muckup (with or without --use-coverage) or of mutmut (with
\* --use-coverage, with --use-patch-file, or with neither: the two options
\* exclude each other), in a directory that may hold the files already
InitSetup ==
    /\ prog = "setup"
    /\ pc = "main"
    /\ cur = 1
    /\ runs = 1
    /\ disk = [f \in Files |-> Orig(f)]
    /\ bak = [f \in Files |-> Absent]
    /\ exc = "none"
    /\ using_testmon = FALSE
    /\ baseline_test_time = 0
    /\ last = NoRun
    /\ code = -1
    /\ status = [m \in Mutants |-> UNTESTED]
    /\ applied = [m \in Mutants |-> FALSE]
    /\ source = [m \in Mutants |-> Orig(FileOf(m))]
    /\ pre = Empty
    /\ trail = <<>>
    /\ cache = [m \in Mutants |-> NoRow]
    /\ cached_time = 0
    /\ config = BlankConfig
    /\ cached_status = UNTESTED
    /\ tested_against = [m \in Mutants |-> NoHash]
    /\ baseline_run = NoRun
    /\ registry = NoRegistry
    /\ popen = NoPopen
    /\ pre_mutation = FALSE
    /\ post_mutation = FALSE
    /\ linedb = NoLines
    /\ db = NoDb
    /\ walker = NoWalker
    /\ \E entry \in {"muckup", "mutmut"}, cov, patch, cf, pf, w \in BOOLEAN :
         /\ ~(cov /\ patch)
         /\ entry = "muckup" => ~patch /\ ~pf
         /\ setup = [NoSetup EXCEPT !.entry = entry, !.where = "time_test_suite",
                                    !.use_coverage = cov, !.use_patch_file = patch,
                                    !.coverage_file = cf, !.patch_file = pf,
                                    !.runner_writes_coverage = w]

NextSetup ==
    \/ coverage_written
    \/ setup_time_test_suite
    \/ main_use_coverage
    \/ run_main_use_coverage
    \/ run_main_read_filter
    \/ setup_generate
    \/ setup_run_mutation_tests

SpecSetup == InitSetup /\ [][NextSetup]_vars

(* ----------------- mutmut run with hook commands ---------------------- *)

\* `mutmut run` with --pre-mutation and/or --post-mutation given (lines
\* 471-472: Config(pre_mutation=..., post_mutation=...))
InitHooks ==
    /\ prog = "mutmut"
    /\ pc = "mm_baseline"
    /\ cur = 1
    /\ runs = 1
    /\ disk = [f \in Files |-> Orig(f)]
    /\ bak = [f \in Files |-> Absent]
    /\ exc = "none"
    /\ using_testmon \in BOOLEAN
    /\ baseline_test_time = 0
    /\ last = NoRun
    /\ code = -1
    /\ status = [m \in Mutants |-> UNTESTED]
    /\ applied = [m \in Mutants |-> FALSE]
    /\ source = [m \in Mutants |-> Orig(FileOf(m))]
    /\ pre = Empty
    /\ trail = <<>>
    /\ cache = [m \in Mutants |-> NoRow]
    /\ cached_time = 0
    /\ config = BlankConfig
    /\ cached_status = UNTESTED
    /\ tested_against = [m \in Mutants |-> NoHash]
    /\ baseline_run = NoRun
    /\ registry = NoRegistry
    /\ setup = NoSetup
    /\ walker = NoWalker
    /\ db = NoDb
    /\ popen = NoPopen
    /\ pre_mutation \in BOOLEAN
    /\ post_mutation \in BOOLEAN
    /\ linedb = NoLines

NextHooks ==
    \/ time_test_suite
    \/ run_main_setup
    \/ run_mutation_lookup
    \/ mutate_file_backup
    \/ mutate_file_truncate
    \/ mutate_file_write
    \/ run_mutation_tests_pass
    \/ run_mutation_finally
    \/ run_mutation_tests_update
    \/ run_main_exit
    \/ run_main_again

SpecHooks == InitHooks /\ [][NextHooks]_vars

(* ------------- popen_streaming_output: threads and subprocess --------- *)
(* muckup/runner.py lines 29-81 (version "muckup") and mutmut/__main__.py   *)
(* lines 560-637 (version "mutmut"): the calling thread, the thread of      *)
(* threading.Timer(timeout, kill, [process]) and the subprocess run         *)
(* concurrently; every action below is one step of one of them.             *)

\* Thread.is_alive() of the Timer: from start() until run() has ended
TimerAlive == popen.timer \in {"waiting", "fire", "ending"}

\* subprocess.Popen(...), runner.py lines 45-50: spawn, or OSError
popen_spawn ==
    /\ popen.where = "spawn"
    /\ \E ok \in BOOLEAN :
         popen' = IF ok THEN [popen EXCEPT !.process = "running", !.where = "timer"]
                  ELSE [popen EXCEPT !.exc = "OSError", !.where = "raised"]
    /\ UNCHANGED <<mainVars, linedb, db, walker, setup, registry>>

\* timer = Timer(timeout, kill, [process]); timer.start(), lines 60-61
popen_start_timer ==
    /\ popen.where = "timer"
    /\ popen' = [popen EXCEPT !.timer = "waiting", !.where = "while"]
    /\ UNCHANGED <<mainVars, linedb, db, walker, setup, registry>>

\* while process.returncode is None, line 63
popen_while ==
    /\ popen.where = "while"
    /\ popen' = [popen EXCEPT !.where = IF popen.returncode = <<>> THEN "readline"
                                        ELSE "cancel"]
    /\ UNCHANGED <<mainVars, linedb, db, walker, setup, registry>>

\* lines 64-72 (mutmut: 609-627): readline() blocks until a line or the end
\* of the stream, which comes when every process that holds the write end
\* of the pipe has closed it; callback(line); an OSError is swallowed, any
\* other exception leaves the function. The mutmut version reads on until
\* the end of the stream before it goes on to line 628.
popen_readline ==
    /\ popen.where = "readline"
    /\ popen.buffered > 0 \/ (popen.process # "running" /\ ~popen.inherited)
    /\ \E err \in {"none", "OSError", "Exception"} :
         LET got == popen.buffered > 0
             left == IF got THEN popen.buffered - 1 ELSE 0
         IN popen' =
              IF err = "Exception"
                THEN [popen EXCEPT !.buffered = left, !.exc = "Exception",
                                   !.where = "raised"]
              ELSE IF popen.version = "mutmut" /\ got /\ err = "none"
                THEN [popen EXCEPT !.buffered = left]
              ELSE [popen EXCEPT !.buffered = left, !.where = "is_alive"]
    /\ UNCHANGED <<mainVars, linedb, db, walker, setup, registry>>

\* if not timer.is_alive(): raise TimeoutError, lines 73-74
popen_is_alive ==
    /\ popen.where = "is_alive"
    /\ popen' = IF TimerAlive THEN [popen EXCEPT !.where = "poll"]
                ELSE [popen EXCEPT !.exc = "TimeoutError", !.where = "raised"]
    /\ UNCHANGED <<mainVars, linedb, db, walker, setup, registry>>

\* process.poll(), line 76: sets returncode once the subprocess has ended
\* (the negative signal number when it was killed)
popen_poll ==
    /\ popen.where = "poll"
    /\ popen' = [popen EXCEPT
                   !.returncode = IF popen.process = "running" THEN <<>>
                                  ELSE IF popen.process = "killed" THEN <<-9>>
                                  ELSE <<popen.rc>>,
                   !.where = "while"]
    /\ UNCHANGED <<mainVars, linedb, db, walker, setup, registry>>

\* timer.cancel(); return process.returncode, lines 79-81
popen_cancel_return ==
    /\ popen.where = "cancel"
    /\ popen' = [popen EXCEPT !.finished = TRUE, !.result = popen.returncode,
                              !.where = "returned"]
    /\ UNCHANGED <<mainVars, linedb, db, walker, setup, registry>>

\* the subprocess writes a line of output
subprocess_write ==
    /\ popen.process = "running"
    /\ popen.emitted < MaxLines
    /\ popen' = [popen EXCEPT !.emitted = @ + 1, !.buffered = @ + 1]
    /\ UNCHANGED <<mainVars, linedb, db, walker, setup, registry>>

\* the subprocess terminates by itself with some exit code
subprocess_exit ==
    /\ popen.process = "running"
    /\ \E r \in ExitCodes :
         popen' = [popen EXCEPT !.process = "exited", !.rc = r,
                                !.exited_when = popen.clock]
    /\ UNCHANGED <<mainVars, linedb, db, walker, setup, registry>>

\* `timeout` seconds have passed since timer.start()
deadline_passes ==
    /\ popen.deadline
    /\ popen.timer # "none"
    /\ popen.clock = "before"
    /\ popen' = [popen EXCEPT !.clock = "after",
                              !.overdue = (popen.process = "running")]
    /\ UNCHANGED <<mainVars, linedb, db, walker, setup, registry>>

\* Timer.run: self.finished.wait(self.interval) returns, at the deadline or
\* on cancel(); if not self.finished.is_set() the function is called next
timer_wake ==
    /\ popen.timer = "waiting"
    /\ popen.clock = "after" \/ popen.finished
    /\ popen' = [popen EXCEPT !.timer = IF popen.finished THEN "ending" ELSE "fire"]
    /\ UNCHANGED <<mainVars, linedb, db, walker, setup, registry>>

\* kill(process_), lines 52-57: process_.kill(), an OSError ignored
timer_kill ==
    /\ popen.timer = "fire"
    /\ popen' = [popen EXCEPT
                   !.kills = @ + 1,
                   !.process = IF @ = "running" THEN "killed" ELSE @,
                   !.fired_after_return = @ \/ popen.where = "returned",
                   !.timer = "ending"]
    /\ UNCHANGED <<mainVars, linedb, db, walker, setup, registry>>

\* Timer.run: self.finished.set(), and the thread ends
timer_end ==
    /\ popen.timer = "ending"
    /\ popen' = [popen EXCEPT !.timer = "dead", !.finished = TRUE]
    /\ UNCHANGED <<mainVars, linedb, db, walker, setup, registry>>

\* a call popen_streaming_output(cmd, callback, timeout): with a timeout
\* (tests of a mutant) or with timeout=None (the baseline)
InitPopen ==
    /\ prog = "popen"
    /\ pc = "popen_streaming_output"
    /\ cur = 1
    /\ runs = 1
    /\ disk = [f \in Files |-> Orig(f)]
    /\ bak = [f \in Files |-> Absent]
    /\ exc = "none"
    /\ using_testmon = FALSE
    /\ baseline_test_time = 0
    /\ last = NoRun
    /\ code = -1
    /\ status = [m \in Mutants |-> UNTESTED]
    /\ applied = [m \in Mutants |-> FALSE]
    /\ source = [m \in Mutants |-> Orig(FileOf(m))]
    /\ pre = Empty
    /\ trail = <<>>
    /\ cache = [m \in Mutants |-> NoRow]
    /\ cached_time = 0
    /\ config = BlankConfig
    /\ cached_status = UNTESTED
    /\ tested_against = [m \in Mutants |-> NoHash]
    /\ baseline_run = NoRun
    /\ registry = NoRegistry
    /\ setup = NoSetup
    /\ walker = NoWalker
    /\ db = NoDb
    /\ pre_mutation = FALSE
    /\ post_mutation = FALSE
    /\ linedb = NoLines
    /\ \E v \in {"muckup", "mutmut"}, d \in BOOLEAN, i \in BOOLEAN :
         popen = [NoPopen EXCEPT !.where = "spawn", !.version = v, !.deadline = d,
                                 !.inherited = i]

NextPopen ==
    \/ popen_spawn
    \/ popen_start_timer
    \/ popen_while
    \/ popen_readline
    \/ popen_is_alive
    \/ popen_poll
    \/ popen_cancel_return
    \/ subprocess_write
    \/ subprocess_exit
    \/ deadline_passes
    \/ timer_wake
    \/ timer_kill
    \/ timer_end

SpecPopen == InitPopen /\ [][NextPopen]_vars

\* the calling thread and the Timer thread are scheduled again and again,
\* and time passes; the subprocess is free to run for ever
SpecPopenFair ==
    /\ SpecPopen
    /\ WF_vars(popen_spawn) /\ WF_vars(popen_start_timer) /\ WF_vars(popen_while)
    /\ WF_vars(popen_readline) /\ WF_vars(popen_is_alive) /\ WF_vars(popen_poll)
    /\ WF_vars(popen_cancel_return)
    /\ WF_vars(deadline_passes)
    /\ WF_vars(timer_wake) /\ WF_vars(timer_kill) /\ WF_vars(timer_end)

(* ------------------------------ properties ---------------------------- *)

\* the pass verdict on an exit code: 0, or 5 in incremental (testmon) mode
Passed(rc) == rc = 0 \/ (using_testmon /\ rc = 5)

\* the suspicious threshold each orchestrator derives from the baseline T
SuspiciousThreshold ==
    IF prog = "mutmut"
      THEN config.test_time_base + baseline_test_time * config.test_time_multipler
      ELSE baseline_test_time * RunnerSuspiciousFactor

\* the test command has just been run against the applied mutant `cur`
JustTested == pc \in {"finally", "mm_finally"} /\ last.kind \in {"exit", "timeout"}

\* C1: a mutant tested against baseline T ends BAD_TIMEOUT if the run raised
\* Timeout; otherwise OK_SUSPICIOUS if the elapsed time exceeds the threshold
\* computed from T, whether the tests passed or failed; otherwise
\* BAD_SURVIVED if the tests passed; otherwise OK_KILLED.
C1_StatusPriority ==
    JustTested =>
        status[cur] = IF last.kind = "timeout" THEN BAD_TIMEOUT
                      ELSE IF last.elapsed > SuspiciousThreshold THEN OK_SUSPICIOUS
                      ELSE IF Passed(last.rc) THEN BAD_SURVIVED
                      ELSE OK_KILLED

\* the orchestrator has finished testing mutant `cur`: the tests were run and
\* the finally clause has completed
FinishedTesting ==
    \/ prog = "muckup" /\ pc = "tested" /\ last.kind \in {"exit", "timeout"}
    \/ prog = "mutmut" /\ pc = "mm_update" /\ cached_status = UNTESTED

\* C2: after the orchestrator finishes testing a mutant, whichever branch
\* fired (timeout, suspicious, survived, killed), the source file on disk
\* holds exactly its pre-mutation content.
C2_SourceRestoredAfterTest ==
    FinishedTesting =>
        /\ status[cur] \in Terminal
        /\ disk[FileOf(cur)] = pre
        /\ disk[FileOf(cur)] = Orig(FileOf(cur))

\* C2 witness: a mutant whose test run timed out has been restored
C2_RestoredAfterTimeout ==
    /\ prog = "mutmut" /\ pc = "mm_update" /\ cached_status = UNTESTED
    /\ status[cur] = BAD_TIMEOUT
    /\ pre = Orig(FileOf(cur))
    /\ disk[FileOf(cur)] = pre


\* apply() has completed on a mutant and revert() has then completed on the
\* same mutant, with no other completed call in between
ApplyThenRevert ==
    /\ prog = "api" /\ pc = "idle"
    /\ Len(trail) = 2
    /\ trail[1][1] = "apply" /\ trail[2][1] = "revert"
    /\ trail[1][2] = trail[2][2]

\* C3 as stated: for any mutant and any content of its target file, apply()
\* followed by revert() leaves the file identical to its content just before
\* apply(), the mutant's applied flag false, and no <file>.bak behind.
C3_ApplyRevertRestoresFile ==
    ApplyThenRevert =>
        LET m == trail[1][2]
            f == FileOf(m)
        IN /\ disk[f] = trail[1][3]
           /\ ~applied[m]
           /\ bak[f] = Absent

\* C3 amended: apply() followed by revert() leaves the mutant's stored source
\* text in the file, which is the file's content just before apply() when the
\* file held that source text; the applied flag is false and no <file>.bak
\* is left behind.
C3_ApplyRevertRestoresSource ==
    ApplyThenRevert =>
        LET m == trail[1][2]
            f == FileOf(m)
        IN /\ disk[f] = source[m]
           /\ (trail[1][3] = source[m] => disk[f] = trail[1][3])
           /\ ~applied[m]
           /\ bak[f] = Absent

\* C3 witness: apply() and revert() have run on a file that held the mutant's
\* source, and the file holds it again
C3_RoundTripDone ==
    /\ ApplyThenRevert
    /\ trail[1][3] = source[trail[1][2]]
    /\ disk[FileOf(trail[1][2])] = trail[1][3]
    /\ bak[FileOf(trail[1][2])] = Absent

\* control is inside apply()
InApply ==
    pc \in {"apply", "apply_open_bak", "apply_write_bak", "apply_open_file",
            "apply_write_file", "apply_set"}

\* control is at an intermediate point of apply() on mutant `cur`, or between
\* that apply() and the completion of the restore that follows it
InCycle ==
    \/ prog = "muckup" /\ (InApply \/ pc \in {"run_test", "finally"})
    \/ prog = "mutmut" /\ pc \in {"mm_backup", "mm_truncate", "mm_write",
                                   "mm_tests", "mm_finally"}
    \/ prog = "api" /\ (\/ InApply
                        \/ /\ pc \in {"idle", "revert", "revert_move"}
                           /\ applied[cur]
                           /\ trail # <<>>
                           /\ trail[Len(trail)] = <<"apply", cur, pre>>)

\* C4 as stated: at every intermediate point of apply() and of the
\* apply-test-revert cycle where the real file differs from its pre-mutation
\* content, <file>.bak exists and holds the pre-mutation content.
C4_BackupHoldsPreMutationContent ==
    (InCycle /\ disk[FileOf(cur)] # pre) => bak[FileOf(cur)] = pre

\* C4 amended: the same, for a mutant whose stored source text is the content
\* the file had when apply() began (as it is throughout an orchestrator run);
\* the .bak always holds the mutant's stored source text.
C4_BackupHoldsSource ==
    (InCycle /\ disk[FileOf(cur)] # pre) =>
        /\ prog # "mutmut" => bak[FileOf(cur)] = source[cur]
        /\ (prog = "mutmut" \/ pre = source[cur]) => bak[FileOf(cur)] = pre

\* C4 witness: inside apply() the source file is truncated and the .bak
\* holds what the file held before
C4_TruncatedWithBackup ==
    /\ prog = "api" /\ pc = "apply_write_file"
    /\ pre = source[cur]
    /\ disk[FileOf(cur)] = Empty
    /\ bak[FileOf(cur)] = pre

\* C5: apply() on an already-applied mutant raises a fatal error and changes
\* nothing (file, .bak, applied flag); revert() on a mutant that is not
\* applied likewise.
C5_MisuseRaisesAndChangesNothing ==
    [][ /\ (pc = "apply" /\ applied[cur]) =>
              /\ exc' = "RuntimeError:apply"
              /\ pc' = RaiseFromApply
              /\ disk' = disk /\ bak' = bak /\ applied' = applied
        /\ (pc = "revert" /\ ~applied[cur]) =>
              /\ exc' = "RuntimeError:revert"
              /\ pc' = "idle"
              /\ disk' = disk /\ bak' = bak /\ applied' = applied ]_vars

\* C5 witness: a second apply() on an applied mutant has raised, and the
\* mutated file and its backup are as the first apply() left them
C5_SecondApplyRaised ==
    /\ prog = "api" /\ pc = "idle"
    /\ exc = "RuntimeError:apply"
    /\ applied[cur]
    /\ disk[FileOf(cur)] = MutatedSource(cur)
    /\ bak[FileOf(cur)] = source[cur]

\* positions of run_mutation at which mutant `cur` is applied and under test
MutmutApplying == {"mm_backup", "mm_truncate", "mm_write", "mm_tests", "mm_finally"}

\* the lookup of mutant `cur` has returned and its cache row is still as the
\* lookup read it
AfterLookup == prog = "mutmut" /\ pc \in MutmutApplying \cup {"mm_update"}

\* C6: the cache lookup returns OK_KILLED whenever the stored status is
\* OK_KILLED, whatever the hashes; otherwise the stored status if the stored
\* hash equals the current test-suite hash, and UNTESTED if they differ; the
\* orchestrator applies and tests a mutant only when the lookup returned
\* UNTESTED.
C6_CacheLookup ==
    AfterLookup =>
        LET row == cache[cur]
            same == row.tested_against_hash = config.hash_of_tests
        IN /\ row.status = OK_KILLED => cached_status = OK_KILLED
           /\ (row.status # OK_KILLED /\ same) => cached_status = row.status
           /\ (row.status # OK_KILLED /\ ~same) => cached_status = UNTESTED
           /\ pc \in MutmutApplying => cached_status = UNTESTED

\* C6 witness: a stored OK_KILLED has been returned although the test suite
\* changed since it was stored
C6_KilledTrustedAcrossHashes ==
    /\ AfterLookup /\ pc = "mm_update"
    /\ cache[cur].status = OK_KILLED
    /\ cache[cur].tested_against_hash # config.hash_of_tests
    /\ cached_status = OK_KILLED

\* C7: across runs over unchanged sources, with the test-suite hash changing
\* arbitrarily, a mutant whose cached status is OK_KILLED keeps that cached
\* status and is never applied or re-tested.
C7_KilledStaysKilled ==
    [][ /\ \A m \in Mutants :
              cache[m].status = OK_KILLED => cache'[m].status = OK_KILLED
        /\ (prog' = "mutmut" /\ pc' \in MutmutApplying) =>
              cache'[cur'].status # OK_KILLED ]_vars

\* C7 witness: in a later run, under another test-suite hash than the one it
\* was killed under, the first mutant has been served from the cache and
\* written back as OK_KILLED without its file being touched
C7_KilledServedInLaterRun ==
    /\ prog = "mutmut" /\ runs > 1
    /\ pc = "mm_lookup" /\ cur = 2
    /\ cached_status = OK_KILLED
    /\ cache[1].status = OK_KILLED
    /\ tested_against[1] # config.hash_of_tests
    /\ last = NoRun
    /\ disk[FileOf(1)] = Orig(FileOf(1))

\* no test result of the current mutant is waiting to be written to the cache
Settled == ~(prog = "mutmut" /\ pc \in {"mm_finally", "mm_update"})

\* C8 as stated: for every cached mutant with a terminal status, the stored
\* tested_against_hash is the hash of the test suite the mutant was last
\* actually tested against; serving it from the cache leaves that hash alone.
C8_StoredHashIsLastTested ==
    Settled =>
        \A m \in Mutants :
            cache[m].status \in Terminal =>
                cache[m].tested_against_hash = tested_against[m]

\* C8 amended: for every cached mutant with a terminal status other than
\* OK_KILLED, the stored hash is the hash of the test suite the mutant was
\* last actually tested against; every run that processes a mutant, testing
\* it or serving it from the cache, stores the run's current test-suite hash
\* with it, and nothing else changes a stored hash.
C8_StoredHashIsLastProcessed ==
    [][ /\ Settled' =>
              \A m \in Mutants :
                  cache'[m].status \in Terminal \ {OK_KILLED} =>
                      cache'[m].tested_against_hash = tested_against'[m]
        /\ (prog = "mutmut" /\ pc = "mm_update") =>
              cache'[cur].tested_against_hash = config.hash_of_tests
        /\ \A m \in Mutants :
              cache'[m].tested_against_hash # cache[m].tested_against_hash =>
                  (pc = "mm_update" /\ m = cur) ]_vars

\* C8 witness: the first mutant, killed under one test suite, has been served
\* from the cache in a run under another, and its stored hash is now that of
\* the suite it was never run against
C8_KilledHashRewritten ==
    /\ prog = "mutmut" /\ runs > 1
    /\ pc = "mm_lookup" /\ cur = 2
    /\ cached_status = OK_KILLED
    /\ cache[1].status = OK_KILLED
    /\ cache[1].tested_against_hash = config.hash_of_tests
    /\ tested_against[1] # config.hash_of_tests

\* this run's baseline run of the unmutated suite passed / did not pass
BaselinePassed == baseline_run.kind = "exit" /\ Passed(baseline_run.rc)
BaselineFailed == baseline_run.kind # "none" /\ ~BaselinePassed

\* a mutant is applied or under test in an orchestrator run
Testing ==
    /\ prog # "api"
    /\ pc \in {"apply_open_bak", "apply_write_bak", "apply_open_file",
               "apply_write_file", "apply_set", "run_test", "finally"}
              \cup MutmutApplying

\* the run has failed and has applied or tested no mutant
FatalNothingTested ==
    /\ pc = "fatal" /\ exc # "none" /\ code = -1
    /\ \A m \in Mutants : status[m] = UNTESTED /\ ~applied[m]
    /\ \A f \in Files : disk[f] = Orig(f) /\ bak[f] = Absent

\* C9 as stated: if the baseline run does not pass (exit code not 0, and not
\* 5 under incremental mode) the run fails fatally with no mutant applied or
\* tested; in every run no mutant is tested before the baseline has been run
\* and has passed.
C9_BaselineRunInEveryRun ==
    /\ BaselineFailed => FatalNothingTested
    /\ Testing => BaselinePassed

\* C9 amended: if the baseline run does not pass, the run fails fatally, that
\* run applies and tests no mutant and takes no further step; a mutant is
\* tested only in a run whose baseline was run and passed, or in a run that
\* ran no baseline and reuses a baseline time which an earlier passing
\* baseline run set (mutmut's cached time, the runner's baseline_test_time).
C9_BaselinePassedOrReused ==
    [][ /\ BaselineFailed' => FatalNothingTested'
        /\ pc = "fatal" => runs' = runs + 1
        /\ Testing' =>
              \/ BaselinePassed'
              \/ baseline_run' = NoRun /\ baseline_test_time' # 0
        /\ baseline_test_time' \notin {0, baseline_test_time} =>
              \/ BaselinePassed' /\ baseline_test_time' = baseline_run'.elapsed
              \/ /\ prog = "mutmut" /\ baseline_run' = NoRun
                 /\ cached_time # 0 /\ baseline_test_time' = cached_time
        /\ cached_time' # cached_time => BaselinePassed' ]_vars

\* C9 witness: without incremental mode the baseline exited with code 5, and
\* the run has failed before any mutant was touched
C9_RedBaselineFatal ==
    /\ prog = "mutmut" /\ ~using_testmon
    /\ baseline_run.kind = "exit" /\ baseline_run.rc = 5
    /\ exc = "RuntimeError:red"
    /\ FatalNothingTested

\* the value of one bit of the exit code
Flag(b, v) == IF b THEN v ELSE 0

\* some mutant of the run ended with status st
Some(st) == \E m \in Mutants : status[m] = st

\* C10: the aggregate exit code is the bitwise OR of 1 (an exception
\* occurred), 2 (a mutant survived), 4 (a mutant timed out) and 8 (a mutant
\* was suspicious), each bit set independently of the others; it is 0
\* exactly when none holds; killed mutants never affect it.
C10_ExitCodeBitmask ==
    (prog # "api" /\ pc = "done") =>
        /\ code = Flag(exc # "none", 1) + Flag(Some(BAD_SURVIVED), 2)
                  + Flag(Some(BAD_TIMEOUT), 4) + Flag(Some(OK_SUSPICIOUS), 8)
        /\ code = 0 <=> /\ exc = "none"
                        /\ ~Some(BAD_SURVIVED)
                        /\ ~Some(BAD_TIMEOUT)
                        /\ ~Some(OK_SUSPICIOUS)

\* C10 witness: one mutant survived, one timed out, one was killed, no
\* exception: the exit code is 6
C10_SurvivedAndTimeoutIsSix ==
    /\ prog = "mutmut" /\ pc = "done" /\ exc = "none"
    /\ Some(BAD_SURVIVED) /\ Some(BAD_TIMEOUT) /\ Some(OK_KILLED)
    /\ code = 6

\* bit b (1, 2, 4, 8) of an exit code is set
BitSet(c, b) == (c \div b) % 2 = 1

\* C11: a run that finishes without an exception exits with the survived (2),
\* timeout (4) and suspicious (8) bits set exactly when some mutant of the
\* run ended BAD_SURVIVED, BAD_TIMEOUT and OK_SUSPICIOUS respectively, whether
\* the status was served from the cache or freshly computed; a run whose
\* mutants are all OK_KILLED exits with 0.
C11_BitsFollowStatuses ==
    (prog # "api" /\ pc = "done" /\ exc = "none") =>
        /\ BitSet(code, 2) <=> Some(BAD_SURVIVED)
        /\ BitSet(code, 4) <=> Some(BAD_TIMEOUT)
        /\ BitSet(code, 8) <=> Some(OK_SUSPICIOUS)
        /\ ~BitSet(code, 1)
        /\ (\A m \in Mutants : status[m] = OK_KILLED) => code = 0

\* C11 witness: a later run has exited with 2 on a survivor it did not test
\* but took from the cache, every other mutant being killed
C11_CachedSurvivorSetsBit ==
    /\ prog = "mutmut" /\ runs > 1
    /\ pc = "done" /\ exc = "none"
    /\ last = NoRun /\ cached_status = BAD_SURVIVED
    /\ status[NumMutants] = BAD_SURVIVED
    /\ \A m \in Mutants \ {NumMutants} : status[m] = OK_KILLED
    /\ code = 2

(* ---------------- popen_streaming_output (SpecPopen) ------------------- *)

\* the subprocess terminated by itself while the deadline had not passed
ExitedBeforeDeadline == popen.process = "exited" /\ popen.exited_when = "before"

\* the call has ended by raising the named exception
Raised(e) == popen.where = "raised" /\ popen.exc = e

\* C12: popen_streaming_output returns the exit code of a subprocess that
\* terminated by itself before the deadline, ends with TimeoutError (and
\* never with a return value) when the subprocess was still running at the
\* deadline, and under no interleaving of the timer thread and the reading
\* loop raises TimeoutError for a subprocess that exited by itself before
\* the deadline.
C12_ExitCodeOrTimeout ==
    /\ (popen.where = "returned" /\ ExitedBeforeDeadline) => popen.result = <<popen.rc>>
    /\ popen.overdue => popen.where # "returned"
    /\ Raised("TimeoutError") => ~ExitedBeforeDeadline

\* the call has ended, by returning or by raising
CallEnded == popen.where \in {"returned", "raised"}

\* the Timer thread can still run kill(): it waits with cancel() not called,
\* or it is past the check of `finished` and about to call the function
TimerPending ==
    \/ popen.timer = "fire"
    \/ popen.timer = "waiting" /\ ~popen.finished

\* C13: within one call of popen_streaming_output the timer runs kill() at
\* most once; once the call has returned an exit code the timer is cancelled
\* and kill() never runs afterwards; and no call, returning or raising,
\* ends with a timer that is still pending.
C13_TimerFiresOnceAndNeverLeaks ==
    /\ popen.kills <= 1
    /\ ~popen.fired_after_return
    /\ (CallEnded /\ popen.timer # "none") => ~TimerPending

(* --------------------------- timeout and verdicts --------------------- *)

\* C14: the timeout under which mutmut runs the test command against a
\* mutant is test_time_base + T * test_time_multipler, T the baseline time:
\* a run that hits its timeout was stopped after exactly that long.
C14_TimeoutIsBasePlusMultiple ==
    (prog = "mutmut" /\ pc = "mm_finally" /\ last.kind = "timeout")
      => last.elapsed = config.test_time_base
                        + baseline_test_time * config.test_time_multipler

\* C15: a test run counts as passed iff its exit code is 0, or is 5 while
\* testmon mode is active. For the baseline: the run is refused as red
\* exactly when the baseline's exit code is not a pass. For a mutant run that
\* returned an exit code: BAD_SURVIVED only on a pass, OK_KILLED only on a
\* failure, and within the suspicious threshold it is one of the two.
C15_PassVerdict ==
    /\ baseline_run.kind = "exit"
         => (exc = "RuntimeError:red" <=> ~Passed(baseline_run.rc))
    /\ (JustTested /\ last.kind = "exit") =>
         /\ status[cur] = BAD_SURVIVED => Passed(last.rc)
         /\ status[cur] = OK_KILLED => ~Passed(last.rc)
         /\ last.elapsed <= SuspiciousThreshold
              => status[cur] \in {BAD_SURVIVED, OK_KILLED}

\* witness: in testmon mode a mutant run that exits with 5 counts as passed
C15_FivePassesUnderTestmon ==
    /\ JustTested /\ using_testmon
    /\ last.kind = "exit" /\ last.rc = 5
    /\ status[cur] = BAD_SURVIVED
    /\ BaselinePassed

(* ------------------------- one mutant at a time ----------------------- *)

\* the source files that are not in their unmutated state
MutatedFiles == {f \in Files : disk[f] # Orig(f) \/ bak[f] # Absent}

\* in a mutmut run: only the file of the current mutant is ever mutated, and
\* only between that mutant's lookup and its cache update
OneMutantOnDisk ==
    prog = "mutmut" =>
        /\ MutatedFiles \subseteq {FileOf(cur)}
        /\ MutatedFiles # {} => pc \in MutmutApplying

\* a step of a mutmut run keeps the order lookup, apply, test, revert,
\* update, next lookup
InOrder ==
    prog = "mutmut" =>
        /\ (pc' = "mm_backup" /\ pc # "mm_backup") => (pc = "mm_lookup" /\ cur' = cur)
        /\ (pc' = "mm_tests" /\ pc # "mm_tests") => (pc = "mm_write" /\ cur' = cur)
        /\ (pc' = "mm_finally" /\ pc # "mm_finally") => (pc = "mm_tests" /\ cur' = cur)
        /\ (pc' = "mm_update" /\ pc # "mm_update")
             => (pc \in {"mm_lookup", "mm_finally"} /\ cur' = cur)
        /\ (pc' = "mm_lookup" /\ pc # "mm_lookup")
             => \/ pc = "mm_update" /\ cur' = cur + 1
                \/ pc = "mm_generate" /\ cur' = cur /\ cur = 1
        /\ cache' # cache => pc \in {"mm_generate", "mm_update"}
        /\ cur' # cur => \/ pc = "mm_update" /\ cur' = cur + 1
                         \/ pc \in {"done", "fatal"} /\ cur' = 1

\* C16: mutmut processes the mutants strictly one after another in
\* generation order: a mutant's cache lookup comes before its apply, test
\* and revert, its cache update after its revert, and all of them before the
\* next mutant's lookup; never are two mutants applied at once, so at most
\* one source file is in a mutated state.
C16_OneMutantAtATime == []OneMutantOnDisk /\ [][InOrder]_vars

\* witness: the third mutant is under test while the first two have been
\* classified and every other file is in its original state
C16_ThirdMutantUnderTest ==
    /\ prog = "mutmut" /\ pc = "mm_tests" /\ cur = 3
    /\ disk[FileOf(3)] = MutatedSource(3)
    /\ \A f \in Files \ {FileOf(3)} : disk[f] = Orig(f)
    /\ status[1] \in Terminal /\ status[2] \in Terminal

(* ------------------------ errors while testing ------------------------ *)

\* the test run of the current mutant ended by raising: TimeoutError, or
\* another error (OSError from Popen)
TestRunRaised == prog # "api" /\ last.kind \in {"timeout", "error"}

\* C17: any error raised while the tests of a mutant are executed is caught
\* by the orchestrator and recorded as BAD_TIMEOUT for that mutant, nothing
\* is propagated to the caller, and the source file is restored from its
\* backup on that path too.
C17_TestErrorsBecomeTimeout ==
    /\ (TestRunRaised /\ pc \in {"finally", "mm_finally"})
         => (status[cur] = BAD_TIMEOUT /\ exc = "none")
    /\ (TestRunRaised /\ pc \in {"tested", "mm_update", "mm_exit", "fatal", "done"})
         => (\A f \in Files : disk[f] = Orig(f) /\ bak[f] = Absent)

(* ------------------------------ hooks (SpecHooks) --------------------- *)

\* the pre-mutation hook of the current mutant has exited with a non-zero code
PreHookFailed == prog = "mutmut" /\ HookFailed(last)

\* C18: a pre-mutation hook command that exits non-zero does not abort the
\* run: no exception is raised, and the mutant goes on to be applied, tested
\* and classified (and the remaining mutants after it).
C18_FailingPreHookNotFatal ==
    PreHookFailed => (exc = "none" /\ pc = "mm_backup")

(* ------------------- cached lines of a file (SpecLines) --------------- *)

\* the text of a line of the file: the line without its newline character
TextOf(raw) == IF raw # <<>> /\ raw[Len(raw)] = NL THEN SubSeq(raw, 1, Len(raw) - 1) ELSE raw

\* the texts of the lines of the current file
CurrentLines == [i \in 1..Len(linedb.file) |-> TextOf(linedb.file[i])]

\* the cached rows are exactly the lines `texts`: one row per zero-based
\* index, holding the text of that line
RowsAre(texts) ==
    /\ Len(linedb.rows) = Len(texts)
    /\ \A i \in 1..Len(texts) :
         \E k \in 1..Len(linedb.rows) :
            /\ linedb.rows[k].line_number = i - 1
            /\ linedb.rows[k].line = texts[i]

\* C19: after update_line_numbers(filename), for any cached line list and
\* any current content of the file, the call has completed without error and
\* the file's Line rows are exactly the current lines, one row per
\* zero-based index i holding the full text of line i.
C19_RowsAreCurrentLines ==
    linedb.where = "updated" => (linedb.err = "none" /\ RowsAre(CurrentLines))

\* the rows cached before the call, in line order, and their texts
CachedBefore == order_by_line_number(linedb.before)
OldLines == [i \in 1..Len(CachedBefore) |-> CachedBefore[i].line]

Occurrences(t, texts) == Cardinality({i \in 1..Len(texts) : texts[i] = t})

\* the edit replaced one block of lines (possibly empty) by another and left
\* the p lines before it and the q lines after it alone
BlockEdit(p, q) ==
    /\ p + q <= Len(OldLines) /\ p + q <= Len(CurrentLines)
    /\ \A k \in 1..p : OldLines[k] = CurrentLines[k]
    /\ \A k \in 1..q : OldLines[Len(OldLines) + 1 - k] = CurrentLines[Len(CurrentLines) + 1 - k]

\* old line i (one-based) lies outside the edited block and is line n of
\* the file now, newline included; its text names it (it occurs once before
\* and once after)
UnchangedLine(i, n) ==
    /\ Occurrences(OldLines[i], OldLines) = 1
    /\ Occurrences(OldLines[i], CurrentLines) = 1
    /\ linedb.file[n] = OldLines[i] \o <<NL>>
    /\ \E p \in 0..Len(OldLines), q \in 0..Len(OldLines) :
         /\ BlockEdit(p, q)
         /\ \/ i <= p /\ n = i
            \/ i > Len(OldLines) - q /\ n = i + Len(CurrentLines) - Len(OldLines)

\* the mutants of old row b are found on the row with b's text and the
\* zero-based line number n - 1, with their status and hash (Line.get and
\* Mutant.get, cache.py lines 366-368)
FoundAt(b, n) ==
    \E k \in 1..Len(linedb.rows) :
        /\ linedb.rows[k].line = b.line
        /\ linedb.rows[k].line_number = n - 1
        /\ linedb.rows[k].mutants = b.mutants

\* C20: when an edit inserts, deletes or replaces other lines and leaves a
\* line's text unchanged, then after update_line_numbers the mutants
\* registered on that line keep their status and tested_against_hash and
\* are found under the line's new line number.
C20_UnchangedLineKeepsMutants ==
    linedb.where = "updated" =>
        \A i \in 1..Len(CachedBefore), n \in 1..Len(CurrentLines) :
            (CachedBefore[i].mutants # {} /\ UnchangedLine(i, n))
                => FoundAt(CachedBefore[i], n)

(* ------------------------ init_db (SpecDb) ---------------------------- *)

\* init_db has just run in this process
JustOpened == db.where = "opened"

\* C21: on the first cache use of a process, a store whose version is not
\* the current one (no version stamp counting as 1) is emptied of every
\* table and row and rebuilt; a store of the current version keeps every
\* row; in both cases the stored version is the current one afterwards.
C21_WipeIffVersionDiffers ==
    JustOpened =>
        /\ db.before[1].version # current_db_version => db.rows = {}
        /\ db.before[1].version = current_db_version => db.rows = db.before[1].rows
        /\ db.version = "2"

\* witness: a store with rows and no version stamp has been wiped
C21_UnstampedStoreWiped ==
    /\ JustOpened
    /\ db.before[1].version = 1 /\ db.before[1].rows # {}
    /\ db.rows = {}

(* ------------------------ the walker (SpecWalker) ---------------------- *)

\* the mutant the generator is suspended on
Yielded == walker.out[Len(walker.out)]

\* C22: every mutant the walker has yielded has a mutated_source different
\* from its source, also where the ' not not ' collapse changed the
\* regenerated text
C22_NoNoOpMutant ==
    \A k \in 1..Len(walker.out) :
        walker.out[k].mutated_source # walker.out[k].source

\* a mutant is handed out whose regenerated text held ' not not ' and was
\* collapsed
C22_CollapsedMutantYielded ==
    /\ walker.at = "yielded"
    /\ Yielded.mutated_source # Yielded.regenerated
    /\ Yielded.mutated_source # Yielded.source

\* the text of the source with the rule of the node at `path` applied to
\* the tree as parsed, and nothing else changed
OneRuleApplied(path) ==
    LET pristine  == parse(walker.program, walker.pragma)
        node      == NodeAt(pristine, path)
        mutations == mutations_by_type(node.type)
        stack     == [k \in 1..Len(path) |-> NodeAt(pristine, SubSeq(path, 1, k))]
        new       == mutation_operation(mutations.rule, node, stack)
    IN replace_not_not(get_code(setattr(pristine, path, mutations.node_key, new)))

\* C23: between two mutants the tree regenerates the original text, and
\* every yielded mutant is the original source with the one rule of its
\* node applied, carrying no change of another rule application
C23_OneRuleApplicationPerMutant ==
    /\ walker.at \in {"child", "rules", "done"} =>
            get_code(walker.tree) = Mutator_source
    /\ \A k \in 1..Len(walker.out) :
            walker.out[k].mutated_source = OneRuleApplied(walker.out[k].node)

\* C24: no yielded mutant comes from a rule applied to a node that starts
\* on a line with a '# pragma: no mutate' comment, also when the node
\* extends over further lines
C24_NoMutantFromPragmaLine ==
    \A k \in 1..Len(walker.out) : ~walker.out[k].pragma_line

EntersOtherLine ==
    IF walker.at = "child" /\ ~ListEnds
    THEN /\ NodeAt(walker.tree, walker.cursor).type # "tfpdef"
         /\ NodeAt(walker.tree, walker.cursor).line - 1 # walker.current_line_index
    ELSE FALSE

\* C29 as stated: the index has advanced by one for every candidate rule
\* considered since the walker came onto the line, also for the candidates
\* the exclusion policy skipped
C29_IndexCountsCandidates ==
    walker.at \in {"child", "rules", "done"} => walker.index = walker.considered

\* C29 as the code has it: the index becomes zero when a node is entered
\* that starts on another line than the current one, it advances by one
\* when the walker continues after a mutant it yielded, and no other step
\* changes it: a candidate skipped by the exclusion policy, or whose rule
\* leaves the node as it is, does not advance it
C29_IndexCountsYieldedMutants ==
    [][ /\ EntersOtherLine => walker'.index = 0
        /\ walker.at = "yielded" => walker'.index = walker.index + 1
        /\ walker.at = "done" => walker'.index = 0
        /\ (~EntersOtherLine /\ walker.at \notin {"yielded", "done"}) =>
                walker'.index = walker.index ]_vars

\* candidates were skipped on an excluded line after mutants had been
\* yielded on an earlier line: the index is still zero
C29_SkippedWithoutAdvance ==
    /\ walker.at = "child"
    /\ walker.current_line_index \in walker.exclude
    /\ walker.considered > 0
    /\ walker.index = 0
    /\ Len(walker.out) > 0

\* C30: within one pass no two yielded mutants have the same line number
\* and per-line index, and the line number of every mutant is the starting
\* line of the node whose rule produced it
C30_LineAndIndexIdentifyTheNode ==
    /\ \A j, k \in 1..Len(walker.out) :
            (walker.out[j].line = walker.out[k].line
                /\ walker.out[j].index = walker.out[k].index) => j = k
    /\ \A k \in 1..Len(walker.out) : walker.out[k].line = walker.out[k].node_line

(* -------------------- exclusion filter (SpecSetup) --------------------- *)

\* the filter asked for has no backing file
BackingFileAbsent ==
    \/ setup.use_coverage /\ ~setup.coverage_file
    \/ setup.use_patch_file /\ ~setup.patch_file

\* C26: when coverage-based or patch-based filtering is requested and its
\* backing file is absent, no mutant is generated, applied or tested: past
\* the set-up the run has failed, with FileNotFoundError
C26_MissingFilterFileIsFatal ==
    BackingFileAbsent =>
        /\ setup.generated = 0 /\ setup.tested = 0
        /\ setup.where \in {"time_test_suite", "use_coverage", "filter", "fatal"}
        /\ (setup.where = "fatal" /\ setup.baseline = "passed") =>
                setup.exc = "FileNotFoundError"

\* a run with a patch filter whose file is missing has failed after a green
\* baseline
C26_MissingPatchFileFatal ==
    /\ setup.use_patch_file /\ ~setup.patch_file
    /\ setup.baseline = "passed"
    /\ setup.where = "fatal"

(* --------------------- status life cycle (Spec) ------------------------ *)

\* C27: the test of a mutant moves it from UNTESTED to exactly one of
\* OK_KILLED, OK_SUSPICIOUS, BAD_SURVIVED, BAD_TIMEOUT; no other step changes
\* a status; and test_mutant on a mutant whose status is terminal neither
\* applies nor tests it: status, source file and backup stay as they are
C27_UntestedToTerminalOnce ==
    [][ prog = "muckup" =>
          /\ pc = "run_test" =>
                status[cur] = UNTESTED /\ status'[cur] \in Terminal
          /\ \A m \in Mutants :
                status'[m] # status[m] =>
                    /\ pc = "run_test" /\ m = cur
                    /\ status[m] = UNTESTED /\ status'[m] \in Terminal
          /\ (pc = "test_mutant" /\ status[cur] \in Terminal) =>
                /\ pc' = "tested"
                /\ status' = status /\ applied' = applied
                /\ disk' = disk /\ bak' = bak ]_vars

\* C28: after the runner has finished testing a mutant, with any outcome,
\* the Mutant is back in the initial state of apply/revert: its applied flag
\* is false and no .bak file remains, so that a second apply() of the same
\* mutant would not raise
C28_ApplierBackInInitialState ==
    (prog = "muckup" /\ pc = "tested" /\ last.kind \in {"exit", "timeout"}) =>
        /\ ~applied[cur]
        /\ bak[FileOf(cur)] = Absent
        /\ disk[FileOf(cur)] = Orig(FileOf(cur))

(* ------------------- the walker, order and annotations ------------------ *)

\* the tree of the file the walker runs on, as parsed
Parsed == parse(walker.program, walker.pragma)

\* path p comes before path q in the depth-first post-order: q is above p,
\* or p lies in a subtree to the left of q's
PostOrderBefore(p, q) ==
    IF Len(q) < Len(p) /\ SubSeq(p, 1, Len(q)) = q
    THEN TRUE
    ELSE \E k \in 1..Len(p) :
            /\ k <= Len(q)
            /\ SubSeq(p, 1, k - 1) = SubSeq(q, 1, k - 1)
            /\ p[k] < q[k]

\* C31: the mutants come out in depth-first post-order of the tree: what the
\* nodes below a node yield comes before what the node's own rule yields,
\* and the subtrees of siblings are taken from left to right.
C31_MutantsInPostOrder ==
    \A i, j \in 1..Len(walker.out) :
        i < j => PostOrderBefore(walker.out[i].node, walker.out[j].node)

\* a finished walk that yielded from a node after yielding from below it,
\* and from a statement after yielding from the statement to its left
C31_InnerThenOuterThenNext ==
    /\ walker.at = "done"
    /\ \E i, j, k \in 1..Len(walker.out) :
          /\ i < j /\ j < k
          /\ Len(walker.out[j].node) < Len(walker.out[i].node)
          /\ SubSeq(walker.out[i].node, 1, Len(walker.out[j].node)) = walker.out[j].node
          /\ walker.out[j].node[1] < walker.out[k].node[1]

\* the node at path p, or a node above it, is a typed parameter (tfpdef) or
\* the sibling that follows a '->', the return-type annotation
InAnnotation(p) ==
    \E k \in 1..Len(p) :
        LET q     == SubSeq(p, 1, k)
            owner == NodeAt(Parsed, Front(q))
        IN IF NodeAt(Parsed, q).type = "tfpdef" THEN TRUE
           ELSE IF q[k] = 1 THEN FALSE
           ELSE /\ owner.children[q[k] - 1].type = "operator"
                /\ owner.children[q[k] - 1].value = "->"

\* C32: no mutant comes from a return-type annotation or from the subtree of
\* a typed parameter, and the walker never stands on a node of either: the
\* rest of a sibling list is left alone from '->' on, a tfpdef is passed over.
C32_AnnotationsNeverMutated ==
    walker.program \in Programs =>
        /\ \A i \in 1..Len(walker.out) : ~InAnnotation(walker.out[i].node)
        /\ walker.at \in {"rules", "yielded"} => ~InAnnotation(walker.cursor)
        /\ walker.at = "child" => ~InAnnotation(Front(walker.cursor))

\* the walk over the two annotated definitions is finished, with a mutant
\* of the first body and none excluded
C32_AnnotatedDefsWalked ==
    /\ walker.at = "done"
    /\ walker.program = "defs"
    /\ walker.exclude = {} /\ walker.pragma = {}
    /\ \E i \in 1..Len(walker.out) : walker.out[i].node = <<1, 5, 1, 2>>

\* the nodes of the body of the k-th definition of the file that yielded a
\* mutant, as paths from the body; the body is the last child of the funcdef
BodyMutants(k) ==
    LET body == <<k, Len(Parsed.children[k].children)>>
    IN {SubSeq(walker.out[i].node, 3, Len(walker.out[i].node)) :
            i \in {j \in 1..Len(walker.out) :
                      /\ Len(walker.out[j].node) >= 2
                      /\ SubSeq(walker.out[j].node, 1, 2) = body}}

\* C33: a return-type annotation does not change the mutants of the body:
\* of two definitions that differ in the annotation only, the bodies yield
\* mutants from the same nodes.
C33_AnnotatedBodySameMutants ==
    (walker.at = "done" /\ walker.program = "defs"
        /\ walker.exclude = {} /\ walker.pragma = {})
    => BodyMutants(1) = BodyMutants(2)

\* the literal starts, after a prefix of up to two letters, with three quotes
TripleQuoted(value) ==
    \E n \in 0..2 : n + 3 <= Len(value) /\ SubSeq(value, n + 1, n + 3) \in {"\"\"\"", "'''"}

\* C39: the string rule leaves a triple-quoted literal alone, with or without
\* a prefix, so no mutant comes from one; any other literal is rewritten to
\* prefix + quote + XX + content + XX + quote.
C39_TripleQuotedNeverMutated ==
    walker.program \in Programs =>
        \A i \in 1..Len(walker.out) :
            LET node == NodeAt(Parsed, walker.out[i].node)
            IN node.type = "string" => ~TripleQuoted(node.value)

(* ------------------------ the cached baseline time ---------------------- *)

\* C34: with a baseline time in the cache, time_test_suite returns that time
\* and runs no test command; the cached time is written only by a baseline
\* run that passed, with the time that run took.
C34_CachedBaselineReused ==
    [][ /\ (prog = "mutmut" /\ pc = "mm_baseline" /\ cached_time # 0) =>
              /\ baseline_test_time' = cached_time
              /\ baseline_run' = baseline_run /\ last' = last
              /\ cached_time' = cached_time
              /\ pc' = "mm_generate"
        /\ cached_time' # cached_time =>
              /\ pc = "mm_baseline" /\ cached_time = 0
              /\ BaselinePassed'
              /\ cached_time' = baseline_run'.elapsed ]_vars

\* a later run has taken the baseline time from the cache and has run no
\* baseline of its own
C34_SecondRunUsesCache ==
    /\ prog = "mutmut" /\ runs > 1
    /\ pc = "mm_generate"
    /\ baseline_run = NoRun
    /\ cached_time # 0 /\ baseline_test_time = cached_time

(* ---------------------- hooks around a tested mutant -------------------- *)

\* the last hook command that was run: its name, the mutant it was run for
\* and the content of the mutant's file at that moment
LastHook == IF trail = <<>> THEN <<>> ELSE trail[Len(trail)]

\* C35: for a mutant that is tested, the pre-mutation hook runs before the
\* mutant is applied and the post-mutation hook runs after the source file
\* has been restored, whatever the test run ended with, a timeout included;
\* no hook runs for a mutant whose status comes from the cache.
C35_HooksAroundTestedMutant ==
    [][ prog = "mutmut" =>
        /\ (pre_mutation /\ pc = "mm_lookup" /\ pc' = "mm_backup") =>
              /\ LastHook' = <<"pre_mutation", cur, Orig(FileOf(cur))>>
              /\ disk' = disk /\ bak' = bak
        /\ (post_mutation /\ pc = "mm_finally") =>
              /\ LastHook' = <<"post_mutation", cur, Orig(FileOf(cur))>>
              /\ disk'[FileOf(cur)] = Orig(FileOf(cur))
        /\ (pc = "mm_lookup" /\ cached_status' \in Terminal) => trail' = trail
        /\ trail' # trail => pc \in {"mm_lookup", "mm_finally"} ]_vars

\* a mutant whose test run timed out has had both hooks run around it, the
\* second on the restored file
C35_HooksAroundTimedOutMutant ==
    /\ prog = "mutmut" /\ pc = "mm_update"
    /\ last.kind = "timeout" /\ status[cur] = BAD_TIMEOUT
    /\ trail = << <<"pre_mutation", cur, Orig(FileOf(cur))>>,
                  <<"post_mutation", cur, Orig(FileOf(cur))>> >>
    /\ disk[FileOf(cur)] = Orig(FileOf(cur))

(* --------------------------- tallies and progress ----------------------- *)

\* the mutants of this run processed so far that ended with status st
Processed(st) == {m \in Mutants : m < cur /\ status[m] = st}

\* C36: between two mutants of a run without exception, progress is the
\* number of mutants processed so far and the four tallies add up to it,
\* every processed mutant being in the tally of its status and in no other;
\* at the end of the run progress equals total.
C36_TalliesAddUpToProgress ==
    (prog = "mutmut" /\ exc = "none" /\ pc \in {"mm_lookup", "mm_exit", "done"}) =>
        /\ config.progress = cur - 1
        /\ config.killed_mutants = Cardinality(Processed(OK_KILLED))
        /\ config.surviving_mutants = Cardinality(Processed(BAD_SURVIVED))
        /\ config.surviving_mutants_timeout = Cardinality(Processed(BAD_TIMEOUT))
        /\ config.suspicious_mutants = Cardinality(Processed(OK_SUSPICIOUS))
        /\ config.killed_mutants + config.surviving_mutants
             + config.surviving_mutants_timeout + config.suspicious_mutants
           = config.progress
        /\ pc \in {"mm_exit", "done"} => config.progress = config.total

\* a later run has ended without exception; one of its mutants timed out
\* and another was served from the cache
C36_RunEndedWithTimeoutAndCached ==
    /\ prog = "mutmut" /\ exc = "none" /\ pc = "done" /\ runs > 1
    /\ config.progress = NumMutants
    /\ config.surviving_mutants_timeout > 0
    /\ \E m \in Mutants : tested_against[m] # config.hash_of_tests

(* ---------------------- register_mutants (SpecRegister) ----------------- *)

C38_CallWithTimeoutEnds == popen.deadline ~> CallEnded
====
